---- MODULE Spec2Model ----
(***************************************************************************)
(* A model of ramwiz' streaming level-of-detail renderer                   *)
(* (app/composables/useRenderer.ts): the stream loader (startStream), the  *)
(* LOD store (lodLevels), the per-frame LOD selection and draw-range        *)
(* computation (the regl.frame callback) and teardown (onUnmounted).       *)
(*                                                                         *)
(* Scheduling is single-threaded and cooperative: every action below is    *)
(* one run-to-completion piece of JavaScript between two suspension points *)
(* (an await, an animation-frame callback, a DOM event).                   *)
(***************************************************************************)
EXTENDS Integers, Sequences, FiniteSets, TLC

\* ---------------------------------------------------------------- bounds
\* startStream is called again at most MaxRestarts times after the first call.
MaxRestarts == 1
\* The trace header declares 0, 1 or MaxEntries events.
MaxEntries == 4
\* The batch size CHUNK_SIZE (50,000 in the source) is scaled down: it is
\* 1 or MaxChunk, chosen when the model starts.
MaxChunk == 2
\* At most MaxInputs wheel and drag events are handled.
MaxInputs == 2
\* At most MaxTriggers layout triggers arrive between two animation frames.
MaxTriggers == 3

\* ------------------------------------------------------ program constants
LOD_FACTORS == <<1, 2, 3>>
NUM_LODS == Len(LOD_FACTORS)
EVENTS_PER_PIXEL_THRESHOLD == 1500
START_TIME == 300

\* The startStream invocations followed at one time: the current one and one
\* earlier, cancelled invocation that is still suspended on an await.  A slot
\* is reused once its invocation has ended.
Sessions == {1, 2}
Totals == {0, 1, MaxEntries}
ChunkSizes == {1, MaxChunk}
CanvasWidths == {0, 1000}

\* Marks a slot of a GPU buffer that no subdata call has written yet.
Unwritten == 0 - 1

\* The three values of a double that are no tick count stand apart from every
\* time of the model.
NaN == 2 * 1000000000
PosInf == 1900000000
NegInf == 0 - PosInf

Min(a, b) == IF a <= b THEN a ELSE b
Max(a, b) == IF a >= b THEN a ELSE b
\* Math.ceil(a / b) for a >= 0, b > 0
\* (Ceil rounding down, as Math.floor does.)
CeilRoundingDown(a, b) == a \div b
Ceil(a, b) == (a + b - 1) \div b

\* ------------------------------------------------------------ the backend
\* The trace served by the backend: event g (0-based) starts at TraceStart(g)
\* (time-sorted, with ties) and carries command id TraceCmd(g).
TraceStart(g) == 600 * ((g + 1) \div 2)
TraceCmd(g) == g % 4

\* A 32-bit value as its four little-endian bytes, and back.
Bytes4(v) == << v % 256, (v \div 256) % 256, (v \div 65536) % 256, (v \div 16777216) % 256 >>
Word4(b, at) == b[at] + 256 * b[at + 1] + 65536 * b[at + 2] + 16777216 * b[at + 3]

RECURSIVE Flatten(_)
Flatten(ss) == IF ss = << >> THEN << >> ELSE Head(ss) \o Flatten(Tail(ss))

\* get_trace_view(start, count) on a trace of n events: the records
\* [start, start + count) that exist, as N 4-byte starts followed by N command bytes.
GetEntries(n, start, count) ==
    LET m == Max(0, Min(count, n - start))
    IN  Flatten([k \in 1..m |-> Bytes4(TraceStart(start + k - 1))])
          \o [k \in 1..m |-> TraceCmd(start + k - 1)]

\* decodeTraceData: N = byteLength / 5, starts = Float32Array over the first 4N
\* bytes, cmds = Uint8Array over the next N bytes.  N is a quotient of doubles:
\* it is count + fifths / 5 here.  The typed-array constructors truncate a
\* fractional length or offset (ToIndex) and do not throw: the views have
\* count elements and cmds begins at byte floor(4 * byteLength / 5).
decodeTraceData(input) ==
    LET N         == Len(input) \div 5
        startBytes == (4 * Len(input)) \div 5
    IN  [ starts |-> [k \in 1..N |-> Word4(input, 4 * (k - 1) + 1)],
          cmds   |-> [k \in 1..N |-> input[startBytes + k]],
          count  |-> N,
          fifths |-> Len(input) % 5 ]

\* data.count > 0 (lines 346, 375)
NonEmpty(data) == data.count > 0 \/ data.fifths > 0

\* What the loop `for (i = 0; i < data.count; i++)` of line 392 reads: one
\* more element than the views hold when data.count has a fraction; an index
\* past the end of a typed array reads undefined, which a Float32Array stores
\* as NaN and a Uint8Array as 0.
LoopReads(data) ==
    IF data.fifths = 0
    THEN data
    ELSE [ starts |-> Append(data.starts, NaN), cmds |-> Append(data.cmds, 0),
           count |-> data.count + 1, fifths |-> data.fifths ]

\* ------------------------------------------------- the command style table
MAX_COMMANDS == 256

\* A colour channel is kept in units of 1 / 510: 0.5 is 255, the byte v is 2 * v.
Neutral == << 255, 255, 255 >>
DefaultDuration == 10

\* hex2rgb (lines 107-114) of a colour given as its six hexadecimal digits.
hex2rgb(hex) ==
    << 2 * (16 * hex[1] + hex[2]), 2 * (16 * hex[3] + hex[4]), 2 * (16 * hex[5] + hex[6]) >>

\* The configuration the store holds: colours for commands 0 and 2 and for
\* the ids -1 and 256, which are no command; clock periods for commands 0, 1
\* (a period of 0) and 3 and for the id 300.
LoadedConfig ==
    [ colors       |-> (0 :> << 15, 15, 0, 0, 0, 0 >>) @@ (2 :> << 0, 0, 8, 0, 15, 15 >>)
                         @@ ((0 - 1) :> << 1, 1, 1, 1, 1, 1 >>)
                         @@ (256 :> << 2, 2, 2, 2, 2, 2 >>),
      clockPeriods |-> (0 :> 4) @@ (1 :> 0) @@ (3 :> 7) @@ (300 :> 5) ]

\* createLookupTexture (lines 93-141): 256 texels, each the default colour and
\* duration unless the configuration gives the command a colour or a non-zero
\* clock period.  A store outside the array (id < 0, id > 255) has no effect.
createLookupTexture(config) ==
    [ width |-> MAX_COMMANDS,
      data  |-> [id \in 0..(MAX_COMMANDS - 1) |->
                   [ color    |-> IF id \in DOMAIN config.colors
                                  THEN hex2rgb(config.colors[id]) ELSE Neutral,
                     duration |-> IF id \in DOMAIN config.clockPeriods
                                       /\ config.clockPeriods[id] # 0
                                  THEN config.clockPeriods[id] ELSE DefaultDuration ]] ]

\* regl.texture({ width: 1, height: 1 }) (line 439): one texel, all zero.
DummyTexture ==
    [ width |-> 1, data |-> [id \in {0} |-> [ color |-> << 0, 0, 0 >>, duration |-> 0 ]] ]

\* The texture the variable lookupTexture stands for.
TextureOf(tex) == IF tex = "dummy" THEN DummyTexture ELSE createLookupTexture(LoadedConfig)

\* texture2D(u_lookupTable, ((id + 0.5) / 256, 0.5)) with nearest filtering
\* (vertex shader, lines 60-61): the texel floor((id + 0.5) / 256 * width).
Texel(texture, id) == texture.data[((2 * id + 1) * texture.width) \div (2 * MAX_COMMANDS)]

\* ------------------------------------------------------------------ state
VARIABLES
    phase,            \* "created" | "mounted" | "unmounted": the component's life
    regl,             \* "null" | "live" | "destroyed": the GPU context
    listeners,        \* which DOM listeners are registered: canvas (wheel, mousedown)
                      \* and window (mousemove, mouseup, resize)
    numEntries,       \* header.num_entries of the trace the backend holds
    CHUNK_SIZE,       \* the loader's batch size
    abortController,  \* 0 (null) or the session whose controller it is
    restarts,         \* number of startStream calls after the first one
    loader,           \* per session: the async startStream invocation's state
    lodLevels,        \* the LOD store, a sequence of LODLevel records
    viewState,        \* start, duration, minDuration, maxDuration, minTime, maxTime
    stats,            \* totalEvents, eventCount, progress, currentLod, instancesDrawn
    lookupTexture,    \* "dummy" (the texture of line 439) | "config" (the one built
                      \* from LoadedConfig by createLookupTexture)
    canvasWidth,      \* canvas.width
    frame,            \* what the frame callback did, when the last step was a frame:
                      \* cleared the canvas, issued the event draw call, counted
                      \* itself in frameCount, threw
    isDragging,       \* TRUE between a mousedown on the canvas and the next mouseup
    inputEvents,      \* number of wheel and drag events handled so far
    lastWheel,        \* what the wheel handler computed, when the last input was a wheel event
    lastMove,         \* the dx of the mousemove, when the last input was a move during a drag
    ruler,            \* the timeline ruler: the inputs and the result of the last getStepSize call
    rq,               \* the range-query loading variant of the renderer: its closure state
    layout            \* the trace layout (layouts/trace.vue): row-layout scheduling

vars == << phase, regl, listeners, numEntries, CHUNK_SIZE, abortController, restarts,
           loader, lodLevels, viewState, stats, lookupTexture, canvasWidth, frame,
           isDragging, inputEvents, lastWheel, lastMove, ruler, rq, layout >>

\* The state of the pointer handlers.
pointerVars == << isDragging, inputEvents, lastWheel, lastMove >>

\* The renderer's own state.
rendererVars == << phase, regl, listeners, numEntries, CHUNK_SIZE, abortController, restarts,
                   loader, lodLevels, viewState, stats, lookupTexture, canvasWidth, frame,
                   isDragging, inputEvents, lastWheel, lastMove >>

\* The state of the components around the renderer.
sideVars == << ruler, rq, layout >>

\* The ruler before its first draw.
NoRuler == [ drawn |-> FALSE, duration |-> 0, width |-> 0, step |-> [ m |-> 0, power |-> 0, infinite |-> FALSE ] ]

\* What the latest updateData call of the range-query variant did ("none"
\* when the last step was no such call), the window it read and whether an
\* update was owed when it was made.
NoCall == [ what |-> "none", start |-> 0, duration |-> 0, owed |-> FALSE ]

\* The range-query variant after construction (part_008, lines 89-119).
\* calls holds the updateData invocations suspended on an await; owed records
\* that an update was requested while a fetch was in flight and no updateData
\* call has read the view since.
RqInit ==
    [ regl |-> "null", listening |-> FALSE, start |-> 0, duration |-> 100,
      isDragging |-> FALSE, inputs |-> 0,
      isFetching |-> FALSE, pendingUpdate |-> FALSE, debounceTimer |-> FALSE,
      calls |-> << >>, instanceCount |-> 0, loadedStartVal |-> 0, loadedEndVal |-> 0,
      owed |-> FALSE, last |-> NoCall ]

\* What the latest animation frame of the trace layout ran: the callbacks
\* scheduleLayoutUpdate had requested, onMounted's own callback, and whether an
\* updateLayout call published a row layout.
NoLayoutFrame == [ ran |-> FALSE, scheduled |-> 0, initial |-> 0, triggers |-> 0,
                   published |-> FALSE ]

\* The trace layout after setup (trace.vue, lines 85-95).  requested is the
\* number of animation-frame requests scheduleLayoutUpdate has pending,
\* initialRequest the one onMounted makes, triggers the number of triggers
\* since the last frame.
LayoutInit ==
    [ phase |-> "created", treeContainer |-> FALSE, layoutRafId |-> 0, requested |-> 0,
      initialRequest |-> FALSE, observers |-> FALSE, windowListeners |-> FALSE,
      triggers |-> 0, frame |-> NoLayoutFrame ]

\* The state of a startStream invocation that has not been made yet.
\* globalEventIndex is a double: its value is globalEventIndex + indexFifths / 5.
\* badLength records that the byte length of the last batch response was not
\* a multiple of 5; sent is the number of events of the trace the backend held
\* when the last batch request was issued.
IdleLoader ==
    [ pc |-> "idle", aborted |-> FALSE, exit |-> "none", totalEntries |-> 0,
      lodOffsets |-> [i \in 1..NUM_LODS |-> 0], globalEventIndex |-> 0, indexFifths |-> 0,
      offset |-> 0, probes |-> 0, fetches |-> << >>, badLength |-> FALSE, sent |-> 0 ]

NoListeners == [ canvas |-> FALSE, window |-> FALSE ]

NoMove == [ happened |-> FALSE, dx |-> 0 ]

NoWheel == [ happened |-> FALSE, mouseX |-> 0, width |-> 0, newStart |-> 0 ]

NoFrame ==
    [ ran |-> FALSE, cleared |-> FALSE, drew |-> FALSE, counted |-> FALSE, threw |-> FALSE,
      lod |-> 0, offset |-> 0, instances |-> 0, loadedCount |-> 0 ]

Init ==
    /\ phase = "created"
    /\ regl = "null"
    /\ listeners = NoListeners
    /\ numEntries \in Totals
    /\ CHUNK_SIZE \in ChunkSizes
    /\ abortController = 0
    /\ restarts = 0
    /\ loader = [s \in Sessions |-> IdleLoader]
    /\ lodLevels = << >>
    /\ viewState = [ start |-> 0, duration |-> 100, minDuration |-> 100, maxDuration |-> 1200,
                     minTime |-> 0, maxTime |-> 1000 ]
    /\ stats = [ totalEvents |-> 0, eventCount |-> 0, progress |-> << 0, 1 >>,
                 currentLod |-> 0, instancesDrawn |-> 0 ]
    /\ lookupTexture = "dummy"
    /\ canvasWidth = 1000
    /\ frame = NoFrame
    /\ isDragging = FALSE
    /\ inputEvents = 0
    /\ lastWheel = NoWheel
    /\ lastMove = NoMove
    /\ ruler = NoRuler
    /\ rq = RqInit
    /\ layout = LayoutInit

\* ------------------------------------------------------------ the LOD store
\* A level as startStream allocates it: two GPU buffers of lodCount slots,
\* an empty chunk index, nothing loaded.  owner is the session that pushed it.
NewLevel(s, lodCount) ==
    [ owner       |-> s,
      startBuffer |-> [k \in 1..lodCount |-> Unwritten],
      cmdBuffer   |-> [k \in 1..lodCount |-> Unwritten],
      chunkIndex  |-> << >>,
      loadedCount |-> 0,
      totalCount  |-> lodCount ]

\* The levels one startStream call pushes: one per decimation factor.
AllocLevels(s, totalEntries) ==
    [i \in 1..NUM_LODS |-> NewLevel(s, Ceil(totalEntries, LOD_FACTORS[i]))]

\* buffer.subdata(data, offset): slots offset .. offset + |data| - 1 take data.
Subdata(buf, data, off) ==
    [k \in 1..Len(buf) |->
        IF k - 1 >= off /\ k - 1 < off + Len(data) THEN data[k - off] ELSE buf[k]]

\* The positions i of a decoded batch that level lodIdx keeps: those whose
\* global index globalEventIndex + i is a multiple of the level's factor.
\* (Kept with the index inside the batch in place of the global index.)
KeptByLocalIndex(factor, globalEventIndex, i) == i % factor = 0
Kept(factor, globalEventIndex, i) == (globalEventIndex + i) % factor = 0

Decimate(factor, globalEventIndex, count) ==
    SelectSeq([i \in 1..count |-> i - 1], LAMBDA i : Kept(factor, globalEventIndex, i))

\* The chunk-index rule of the batch loop: an entry is recorded at the start
\* of the appended slice unless this is the first append.
\* (RecordsEntryAlways records an entry for the first append as well.)
RecordsEntryAlways(lodOffset, offset) == TRUE
RecordsEntry(lodOffset, offset) == lodOffset > 0 /\ offset > 0

\* The per-level loop of one batch (lines 384-412), from level lodIdx on.
\* threw: the loop raised (an undefined level, or subdata failing on a
\* destroyed buffer when gpuThrows) and left the later statements undone.
RECURSIVE ProcessLods(_, _, _, _, _, _, _)
ProcessLods(levels, offs, lodIdx, globalEventIndex, offset, data, gpuThrows) ==
    IF lodIdx > NUM_LODS
    THEN [ levels |-> levels, offs |-> offs, threw |-> FALSE ]
    ELSE
      LET keep       == Decimate(LOD_FACTORS[lodIdx], globalEventIndex, data.count)
          lodWriteIdx == Len(keep)
          tempStarts == [k \in 1..lodWriteIdx |-> data.starts[keep[k] + 1]]
          tempCmds   == [k \in 1..lodWriteIdx |-> data.cmds[keep[k] + 1]]
      IN
      IF lodWriteIdx = 0
      THEN ProcessLods(levels, offs, lodIdx + 1, globalEventIndex, offset, data, gpuThrows)
      ELSE IF lodIdx > Len(levels)
      THEN [ levels |-> levels, offs |-> offs, threw |-> TRUE ]
      ELSE
        LET indexed ==
              IF RecordsEntry(offs[lodIdx], offset)
              THEN [levels EXCEPT ![lodIdx].chunkIndex =
                       Append(@, [time |-> tempStarts[1], offset |-> offs[lodIdx]])]
              ELSE levels
            written ==
              [indexed EXCEPT
                  ![lodIdx].startBuffer = Subdata(@, tempStarts, offs[lodIdx]),
                  ![lodIdx].cmdBuffer   = Subdata(@, tempCmds, offs[lodIdx]),
                  ![lodIdx].loadedCount = offs[lodIdx] + lodWriteIdx]
        IN
        IF gpuThrows
        THEN [ levels |-> indexed, offs |-> offs, threw |-> TRUE ]
        ELSE ProcessLods(written, [offs EXCEPT ![lodIdx] = @ + lodWriteIdx], lodIdx + 1,
                         globalEventIndex, offset, data, gpuThrows)

\* ---------------------------------------------------------- the stream loader
\* Where an exception inside startStream's try block leaves the invocation:
\* the catch clause encloses the whole loop, so the loader ends.
\* (CatchPc of a catch clause inside the loop body, which would go on to the next batch.)
CatchPcInsideLoop == "raf"
CatchPc == "done"

\* An invocation that has returned: its locals are gone, how it ended is kept.
Returned(l, how) ==
    [IdleLoader EXCEPT !.pc = "done", !.exit = how, !.aborted = l.aborted,
                       !.badLength = l.badLength]

Caught(l, how) ==
    IF CatchPc = "done" THEN Returned(l, how) ELSE [l EXCEPT !.pc = CatchPc, !.exit = how]

\* The head of the batch loop (lines 367-372): leave when everything is fetched,
\* break when the signal is aborted, otherwise issue the next getEntries.
\* (BatchCount without the clamp to the entries that remain.)
BatchCountUnclamped(l) == CHUNK_SIZE
BatchCount(l) == Min(CHUNK_SIZE, l.totalEntries - l.offset)

\* The loop condition (line 367).
\* (MoreToFetch of a loop that stops one batch short of the end.)
MoreToFetchShort(l) == l.offset + CHUNK_SIZE < l.totalEntries
MoreToFetch(l) == l.offset < l.totalEntries

LoopHead(l) ==
    IF MoreToFetch(l)
    THEN IF l.aborted
         THEN Returned(l, "aborted")
         ELSE [l EXCEPT !.pc = "fetch", !.fetches = Append(@, << l.offset, BatchCount(l) >>),
                        !.badLength = FALSE, !.sent = numEntries]
    ELSE Returned(l, "complete")

\* The end of the loop body (line 421): the loader awaits one animation-frame
\* tick before it returns to the loop head.
\* (AfterBatch of a loop body without the await: straight back to the loop head.)
AfterBatchNoYield(l) == LoopHead(l)
AfterBatch(l) == [l EXCEPT !.pc = "raf"]

\* startStream up to its first await (lines 303-315): abort the previous
\* controller, install a new one, clear the store, call getHeader.
StartStream(s) ==
    /\ regl # "null"
    /\ abortController' = s
    /\ lodLevels' = << >>
    /\ loader' = [t \in Sessions |->
                    IF t = s THEN [IdleLoader EXCEPT !.pc = "header"]
                    ELSE IF t = abortController THEN [loader[t] EXCEPT !.aborted = TRUE]
                    ELSE loader[t]]

\* onMounted (lines 428-628): create the GPU context, register the frame
\* callback and the listeners, size the canvas, start the first stream.
\* ok = FALSE: createREGL throws and the catch clause logs it.
Mount(ok) ==
    /\ phase = "created"
    /\ phase' = "mounted"
    /\ IF ok
       THEN /\ regl' = "live"
            /\ listeners' = [ canvas |-> TRUE, window |-> TRUE ]
            /\ canvasWidth' \in CanvasWidths
            /\ abortController' = 1
            /\ lodLevels' = << >>
            /\ loader' = [loader EXCEPT ![1].pc = "header"]
       ELSE UNCHANGED << regl, listeners, canvasWidth, abortController, lodLevels, loader >>
    /\ UNCHANGED << numEntries, CHUNK_SIZE, restarts, viewState, stats, lookupTexture >>
    /\ frame' = NoFrame
    /\ UNCHANGED sideVars
    /\ UNCHANGED pointerVars

\* A later startStream call while the view is mounted, after the backend has
\* opened a trace of n events; it is followed in the first slot whose
\* invocation has ended.
Ended(s) == loader[s].pc \in {"idle", "done"}
OpenTrace(n) ==
    /\ phase = "mounted"
    /\ abortController # 0
    /\ \E s \in Sessions :
          /\ Ended(s)
          /\ \A t \in Sessions : t < s => ~Ended(t)
          /\ StartStream(s)
    /\ restarts < MaxRestarts
    /\ restarts' = restarts + 1
    /\ numEntries' = n
    /\ UNCHANGED << phase, regl, listeners, CHUNK_SIZE, viewState, stats,
                    lookupTexture, canvasWidth >>
    /\ frame' = NoFrame
    /\ UNCHANGED sideVars
    /\ UNCHANGED pointerVars

\* The same with the trace the backend already holds.
Restart == OpenTrace(numEntries)

\* getHeader resolves (lines 315-334).  present = FALSE: no backend session,
\* the loader returns.  gpuThrows: regl.buffer may fail once regl is destroyed.
HeaderReturn(s, present, gpuThrows) ==
    /\ loader[s].pc = "header"
    /\ gpuThrows => regl = "destroyed"
    /\ IF ~present
       THEN /\ loader' = [loader EXCEPT ![s] = Returned(@, "noheader")]
            /\ UNCHANGED << stats, lodLevels >>
       ELSE /\ stats' = [stats EXCEPT !.totalEvents = numEntries]
            /\ IF gpuThrows
               THEN /\ loader' = [loader EXCEPT ![s] = Caught(@, "error")]
                    /\ UNCHANGED lodLevels
               ELSE /\ loader' = [loader EXCEPT ![s].pc = "config", ![s].totalEntries = numEntries]
                    /\ lodLevels' = lodLevels \o AllocLevels(s, numEntries)
    /\ UNCHANGED << phase, regl, listeners, numEntries, CHUNK_SIZE, abortController, restarts,
                    viewState, lookupTexture, canvasWidth >>
    /\ frame' = NoFrame
    /\ UNCHANGED sideVars
    /\ UNCHANGED pointerVars

\* The command configuration arrives (lines 334-344): a configuration rebuilds
\* the lookup texture, null keeps it; then the one-event probe is fetched.
\* "throw": the call is rejected (or store has no loadCommandConfig).
ConfigReturn(s, outcome) ==
    /\ loader[s].pc = "config"
    /\ IF outcome = "throw"
       THEN /\ loader' = [loader EXCEPT ![s] = Caught(@, "error")]
            /\ UNCHANGED lookupTexture
       ELSE /\ lookupTexture' = IF outcome = "config" THEN "config" ELSE lookupTexture
            /\ loader' = [loader EXCEPT ![s].pc = "probe", ![s].probes = @ + 1]
    /\ UNCHANGED << phase, regl, listeners, numEntries, CHUNK_SIZE, abortController, restarts,
                    lodLevels, viewState, stats, canvasWidth >>
    /\ frame' = NoFrame
    /\ UNCHANGED sideVars
    /\ UNCHANGED pointerVars

\* The probe getEntries(0, 1) resolves (lines 344-372): the view is reset, the
\* first chunk-index entry is pushed on levels 0..NUM_LODS-1, the loop is entered.
ProbeReturn(s) ==
    LET firstData == decodeTraceData(GetEntries(numEntries, 0, 1))
        entry     == [time |-> firstData.starts[1], offset |-> 0]
    IN
    /\ loader[s].pc = "probe"
    /\ IF firstData.count > 0
       THEN /\ viewState' = [viewState EXCEPT !.duration = START_TIME,
                                              !.start = 0 - (START_TIME \div 100)]
            /\ IF Len(lodLevels) < NUM_LODS
               THEN /\ loader' = [loader EXCEPT ![s] = Caught(@, "error")]
                    /\ lodLevels' = [i \in 1..Len(lodLevels) |->
                                       [lodLevels[i] EXCEPT !.chunkIndex = Append(@, entry)]]
               ELSE /\ loader' = [loader EXCEPT ![s] = LoopHead(@)]
                    /\ lodLevels' = [i \in 1..Len(lodLevels) |->
                                       IF i <= NUM_LODS
                                       THEN [lodLevels[i] EXCEPT !.chunkIndex = Append(@, entry)]
                                       ELSE lodLevels[i]]
       ELSE /\ loader' = [loader EXCEPT ![s] = LoopHead(@)]
            /\ UNCHANGED << viewState, lodLevels >>
    /\ UNCHANGED << phase, regl, listeners, numEntries, CHUNK_SIZE, abortController, restarts,
                    stats, lookupTexture, canvasWidth >>
    /\ frame' = NoFrame
    /\ UNCHANGED sideVars
    /\ UNCHANGED pointerVars

\* A getEntries call (the probe or a batch) is rejected: the catch clause logs it.
FetchFail(s) ==
    /\ loader[s].pc \in {"probe", "fetch"}
    /\ loader' = [loader EXCEPT ![s] = Caught(@, "fetchError")]
    /\ UNCHANGED << phase, regl, listeners, numEntries, CHUNK_SIZE, abortController, restarts,
                    lodLevels, viewState, stats, lookupTexture, canvasWidth >>
    /\ frame' = NoFrame
    /\ UNCHANGED sideVars
    /\ UNCHANGED pointerVars

\* Line 380: maxDuration for a new maxTime, (maxTime - minTime) * 1.2.
\* (MaxDurationUnscaled leaves the factor 1.2 out.)
MaxDurationUnscaled(vs, maxTime) == maxTime - vs.minTime
MaxDurationFor(vs, maxTime) == ((maxTime - vs.minTime) * 12) \div 10

\* The getEntries call of a batch resolves with the byte buffer `buffer`
\* (lines 372-421): decode, extend maxTime, decimate into every level, advance
\* the offsets and the statistics, then wait for a frame.
FetchResponse(s, gpuThrows, buffer) ==
    LET l      == [loader[s] EXCEPT !.badLength = Len(buffer) % 5 # 0]
        count  == BatchCount(l)
        data   == decodeTraceData(buffer)
        \* data.starts[data.count - 1] is undefined when data.count has a
        \* fraction, and undefined > maxTime is false
        lastTime == IF data.fifths = 0 THEN data.starts[data.count] ELSE NaN
        \* no global index globalEventIndex + i is a multiple of a factor once
        \* globalEventIndex has a fraction: nothing is kept
        r      == IF NonEmpty(data) /\ l.indexFifths = 0
                  THEN ProcessLods(lodLevels, l.lodOffsets, 1, l.globalEventIndex, l.offset,
                                   LoopReads(data), gpuThrows)
                  ELSE [ levels |-> lodLevels, offs |-> l.lodOffsets, threw |-> FALSE ]
    IN
    /\ l.pc = "fetch"
    /\ gpuThrows => regl = "destroyed"
    /\ viewState' = IF data.count > 0 /\ lastTime # NaN /\ lastTime > viewState.maxTime
                    THEN [viewState EXCEPT
                            !.maxTime = lastTime,
                            !.maxDuration = MaxDurationFor(viewState, lastTime)]
                    ELSE viewState
    /\ lodLevels' = r.levels
    /\ IF r.threw
       THEN /\ loader' = [loader EXCEPT ![s] = Caught(l, "error")]
            /\ UNCHANGED stats
       ELSE /\ loader' = [loader EXCEPT ![s] =
                            AfterBatch([l EXCEPT !.lodOffsets = r.offs,
                                                 !.globalEventIndex = @ + data.count,
                                                 !.indexFifths = @ + data.fifths,
                                                 !.offset = @ + count])]
            /\ stats' = [stats EXCEPT
                            !.progress = << l.offset + count, l.totalEntries >>,
                            !.eventCount = IF Len(r.levels) > 0 THEN r.levels[1].loadedCount ELSE 0]
    /\ UNCHANGED << phase, regl, listeners, numEntries, CHUNK_SIZE, abortController, restarts,
                    lookupTexture, canvasWidth >>
    /\ frame' = NoFrame
    /\ UNCHANGED sideVars
    /\ UNCHANGED pointerVars

\* One batch arrives as the interface promises it: the records
\* [offset, offset + count), exactly count of them.
FetchReturn(s, gpuThrows) ==
    FetchResponse(s, gpuThrows, GetEntries(numEntries, loader[s].offset, BatchCount(loader[s])))

\* A batch arrives short: the buffer holds only the first `returned` records
\* asked for (possibly none).
ShortFetchReturn(s, returned) ==
    /\ returned < BatchCount(loader[s])
    /\ FetchResponse(s, FALSE, GetEntries(numEntries, loader[s].offset, returned))

\* A batch arrives that the backend has read from the trace it held when the
\* request was issued, a trace it has closed since.
LateFetchReturn(s) ==
    /\ loader[s].pc = "fetch"
    /\ loader[s].sent # numEntries
    /\ FetchResponse(s, FALSE, GetEntries(loader[s].sent, loader[s].offset, BatchCount(loader[s])))

\* A batch arrives cut short by `dropped` bytes, so that its length is not a
\* multiple of the record width.  One such response per invocation is
\* followed: globalEventIndex then keeps a fraction to the end.
TruncatedFetchReturn(s, dropped) ==
    /\ loader[s].indexFifths = 0
    /\ LET exact == GetEntries(numEntries, loader[s].offset, BatchCount(loader[s]))
       IN  /\ dropped < Len(exact)
           /\ FetchResponse(s, FALSE, SubSeq(exact, 1, Len(exact) - dropped))

\* The animation-frame tick the loader awaited (line 421) fires: back to the loop head.
RafTick(s) ==
    /\ loader[s].pc = "raf"
    /\ loader' = [loader EXCEPT ![s] = LoopHead(@)]
    /\ UNCHANGED << phase, regl, listeners, numEntries, CHUNK_SIZE, abortController, restarts,
                    lodLevels, viewState, stats, lookupTexture, canvasWidth >>
    /\ frame' = NoFrame
    /\ UNCHANGED sideVars
    /\ UNCHANGED pointerVars

\* onUnmounted (lines 285-301): destroy the context, abort the loader, drop the
\* listeners.  canvasPresent is canvas.value at that time: the canvas
\* listeners are removed only from a canvas the ref still holds (line 294).
Unmount(canvasPresent) ==
    /\ phase = "mounted"
    /\ phase' = "unmounted"
    /\ regl' = IF regl = "null" THEN "null" ELSE "destroyed"
    /\ loader' = [t \in Sessions |->
                    IF t = abortController THEN [loader[t] EXCEPT !.aborted = TRUE] ELSE loader[t]]
    /\ listeners' = [ canvas |-> listeners.canvas /\ ~canvasPresent, window |-> FALSE ]
    /\ UNCHANGED << numEntries, CHUNK_SIZE, abortController, restarts, lodLevels, viewState,
                    stats, lookupTexture, canvasWidth >>
    /\ frame' = NoFrame
    /\ UNCHANGED sideVars
    /\ UNCHANGED pointerVars

\* resize (lines 276-283), on a window resize event: the canvas takes its box's width.
Resize ==
    /\ listeners.window
    /\ canvasWidth' \in CanvasWidths
    /\ UNCHANGED << phase, regl, listeners, numEntries, CHUNK_SIZE, abortController, restarts,
                    loader, lodLevels, viewState, stats, lookupTexture >>
    /\ frame' = NoFrame
    /\ UNCHANGED sideVars
    /\ UNCHANGED pointerVars

\* ------------------------------------------------------------ zoom and pan
\* Times are whole clock ticks here; a product or quotient of the source's
\* double arithmetic is rounded to the nearest tick.

RoundDiv(a, b) == (2 * a + b) \div (2 * b)

\* a + b in IEEE arithmetic
Plus(a, b) ==
    IF a = NaN \/ b = NaN THEN NaN
    ELSE IF a \in {PosInf, NegInf} THEN a
    ELSE IF b \in {PosInf, NegInf} THEN b
    ELSE a + b

\* (x / width) * duration, for a width that is not zero
Frac(x, width, duration) == RoundDiv(x * duration, width)

\* clampViewStart (lines 214-221) in the view state vs; Math.min and Math.max
\* return NaN when an argument is NaN.
clampViewStart(vs, s) ==
    LET padding == RoundDiv(vs.duration, 10)
        min     == vs.minTime - padding
        max     == Max(min, vs.maxTime - vs.duration + padding)
    IN  IF s = NaN THEN NaN ELSE Max(min, Min(s, max))

\* Lines 238-242: one zoom step of 10 %.
ZoomedDuration(duration, zoomOut) ==
    IF zoomOut THEN RoundDiv(duration * 11, 10) ELSE RoundDiv(duration * 10, 11)

\* Line 244.
\* (ClampDuration without the clamp.)
ClampDurationMissing(vs, duration) == duration
ClampDuration(vs, duration) == Max(vs.minDuration, Min(duration, vs.maxDuration))

\* Line 247: the start that keeps the time under the pointer where it is.
ZoomStart(timeAtMouse, mouseX, width, duration) ==
    Plus(timeAtMouse, 0 - Frac(mouseX, width, duration))

\* The pointer positions tried on a canvas box of the given width, and the
\* horizontal mouse movements tried, in pixels.
MouseXs(width) == {0, width \div 2, width}
MouseDeltas == {0 - 500, 0, 500}

\* handleMouseWheel (lines 225-249); zoomOut is event.deltaY > 0.  The event
\* reaches the canvas only while its box is not empty.
handleMouseWheel(zoomOut, mouseX) ==
    LET width       == canvasWidth
        timeAtMouse == Plus(viewState.start, Frac(mouseX, width, viewState.duration))
        duration    == ClampDuration(viewState, ZoomedDuration(viewState.duration, zoomOut))
        newStart    == ZoomStart(timeAtMouse, mouseX, width, duration)
        zoomed      == [viewState EXCEPT !.duration = duration]
    IN
    /\ phase = "mounted"
    /\ listeners.canvas
    /\ canvasWidth > 0
    /\ inputEvents < MaxInputs
    /\ viewState' = [zoomed EXCEPT !.start = clampViewStart(zoomed, newStart)]
    /\ lastWheel' = [ happened |-> TRUE, mouseX |-> mouseX, width |-> width,
                      newStart |-> newStart ]
    /\ lastMove' = NoMove
    /\ inputEvents' = inputEvents + 1
    /\ UNCHANGED << phase, regl, listeners, numEntries, CHUNK_SIZE, abortController, restarts,
                    loader, lodLevels, stats, lookupTexture, canvasWidth, isDragging >>
    /\ frame' = NoFrame
    /\ UNCHANGED sideVars

\* handleMouseDown (lines 254-257), on the canvas.
handleMouseDown ==
    /\ phase = "mounted"
    /\ listeners.canvas
    /\ canvasWidth > 0
    /\ isDragging' = TRUE
    /\ lastWheel' = NoWheel
    /\ lastMove' = NoMove
    /\ UNCHANGED << phase, regl, listeners, numEntries, CHUNK_SIZE, abortController, restarts,
                    loader, lodLevels, viewState, stats, lookupTexture, canvasWidth,
                    inputEvents >>
    /\ frame' = NoFrame
    /\ UNCHANGED sideVars

\* The shift with the sign of dx kept: the window follows the pointer instead
\* of the content.
DragShiftSameSign(dx, width, duration) ==
    IF width = 0
    THEN IF dx = 0 THEN NaN ELSE IF dx > 0 THEN PosInf ELSE NegInf
    ELSE Frac(dx, width, duration)

\* dt of line 267, -(dx / rect.width) * duration: dx / 0 is NaN for dx = 0
\* and an infinity otherwise.
DragShift(dx, width, duration) ==
    IF width = 0
    THEN IF dx = 0 THEN NaN ELSE IF dx > 0 THEN NegInf ELSE PosInf
    ELSE 0 - Frac(dx, width, duration)

\* The view state handleMouseMove leaves (lines 260-269): untouched unless a
\* drag is under way, else start shifted by dt and clamped.
\* (MouseMoveResultUnguarded without the test of isDragging.)
MouseMoveResultUnguarded(vs, dragging, dx, width) ==
    [vs EXCEPT !.start = clampViewStart(vs, Plus(vs.start, DragShift(dx, width, vs.duration)))]
MouseMoveResult(vs, dragging, dx, width) ==
    IF ~dragging
    THEN vs
    ELSE [vs EXCEPT !.start = clampViewStart(vs, Plus(vs.start, DragShift(dx, width, vs.duration)))]

\* handleMouseMove (lines 259-270), on the window, during a drag;
\* dx = e.clientX - lastX.
handleMouseMove(dx) ==
    /\ listeners.window
    /\ isDragging
    /\ inputEvents < MaxInputs
    /\ viewState' = MouseMoveResult(viewState, isDragging, dx, canvasWidth)
    /\ lastWheel' = NoWheel
    /\ lastMove' = [ happened |-> TRUE, dx |-> dx ]
    /\ inputEvents' = inputEvents + 1
    /\ UNCHANGED << phase, regl, listeners, numEntries, CHUNK_SIZE, abortController, restarts,
                    loader, lodLevels, stats, lookupTexture, canvasWidth, isDragging >>
    /\ frame' = NoFrame
    /\ UNCHANGED sideVars

\* handleMouseMove while no drag is under way: the handler returns at line 260.
\* No variable of the program changes; the step is recorded as an input.
IdleMouseMove(dx) ==
    /\ listeners.window
    /\ ~isDragging
    /\ inputEvents < MaxInputs
    /\ viewState' = MouseMoveResult(viewState, isDragging, dx, canvasWidth)
    /\ lastWheel' = NoWheel
    /\ lastMove' = [ happened |-> TRUE, dx |-> dx ]
    /\ inputEvents' = inputEvents + 1
    /\ UNCHANGED << phase, regl, listeners, numEntries, CHUNK_SIZE, abortController, restarts,
                    loader, lodLevels, stats, lookupTexture, canvasWidth, isDragging >>
    /\ frame' = NoFrame
    /\ UNCHANGED sideVars

\* handleMouseUp (lines 272-274), on the window.
handleMouseUp ==
    /\ listeners.window
    /\ isDragging
    /\ isDragging' = FALSE
    /\ lastWheel' = NoWheel
    /\ lastMove' = NoMove
    /\ UNCHANGED << phase, regl, listeners, numEntries, CHUNK_SIZE, abortController, restarts,
                    loader, lodLevels, viewState, stats, lookupTexture, canvasWidth,
                    inputEvents >>
    /\ frame' = NoFrame
    /\ UNCHANGED sideVars

\* ------------------------------------------------------------ the frame callback
\* The two chunk-index scans (lines 540-549, 574-589).  The first walks the
\* index while entries are not later than viewStart and keeps the last offset
\* seen; the second returns the offset of the first entry later than viewEnd,
\* or loadedCount when there is none.
\* (ScanStartStrictlyBefore passes over an entry at viewStart itself.)
ScanStartStrictlyBefore(chunkIndex, viewStart, i, acc) ==
    LET earlier == { k \in 1..Len(chunkIndex) : chunkIndex[k].time < viewStart }
    IN  IF earlier = {} THEN acc
        ELSE chunkIndex[CHOOSE k \in earlier : \A m \in earlier : m <= k].offset
RECURSIVE ScanStart(_, _, _, _)
ScanStart(chunkIndex, viewStart, i, acc) ==
    IF i > Len(chunkIndex) \/ chunkIndex[i].time > viewStart
    THEN acc
    ELSE ScanStart(chunkIndex, viewStart, i + 1, chunkIndex[i].offset)

\* (ScanEndAtOrAfter stops at an entry at viewEnd itself.)
RECURSIVE ScanEndAtOrAfter(_, _, _, _)
ScanEndAtOrAfter(chunkIndex, viewEnd, i, loadedCount) ==
    IF i > Len(chunkIndex)
    THEN loadedCount
    ELSE IF chunkIndex[i].time >= viewEnd
         THEN chunkIndex[i].offset
         ELSE ScanEndAtOrAfter(chunkIndex, viewEnd, i + 1, loadedCount)
RECURSIVE ScanEnd(_, _, _, _)
ScanEnd(chunkIndex, viewEnd, i, loadedCount) ==
    IF i > Len(chunkIndex)
    THEN loadedCount
    ELSE IF chunkIndex[i].time > viewEnd
         THEN chunkIndex[i].offset
         ELSE ScanEnd(chunkIndex, viewEnd, i + 1, loadedCount)

\* eventsPerPixel / factor <= EVENTS_PER_PIXEL_THRESHOLD in IEEE arithmetic,
\* eventsPerPixel = estimatedEventsInView / canvasWidth: a zero width gives
\* NaN or +Infinity (never <=) unless the estimate is negative (-Infinity).
\* (DensityFitsInverted compares with >= in place of <=.)
DensityFitsInverted(estimatedEventsInView, width, factor) ==
    IF width = 0
    THEN estimatedEventsInView > 0
    ELSE estimatedEventsInView >= EVENTS_PER_PIXEL_THRESHOLD * factor * width
DensityFits(estimatedEventsInView, width, factor) ==
    IF width = 0
    THEN estimatedEventsInView < 0
    ELSE estimatedEventsInView <= EVENTS_PER_PIXEL_THRESHOLD * factor * width

\* Lines 555-565: the first level that fits, else the coarsest (1-based here).
\* (SelectLodCoarsestThatFits takes the coarsest level that fits instead.)
SelectLodCoarsestThatFits(estimatedEventsInView, width) ==
    IF \E i \in 1..NUM_LODS : DensityFits(estimatedEventsInView, width, LOD_FACTORS[i])
    THEN CHOOSE i \in 1..NUM_LODS :
            /\ DensityFits(estimatedEventsInView, width, LOD_FACTORS[i])
            /\ \A j \in (i + 1)..NUM_LODS : ~DensityFits(estimatedEventsInView, width, LOD_FACTORS[j])
    ELSE NUM_LODS
SelectLod(estimatedEventsInView, width) ==
    IF \E i \in 1..NUM_LODS : DensityFits(estimatedEventsInView, width, LOD_FACTORS[i])
    THEN CHOOSE i \in 1..NUM_LODS :
            /\ DensityFits(estimatedEventsInView, width, LOD_FACTORS[i])
            /\ \A j \in 1..(i - 1) : ~DensityFits(estimatedEventsInView, width, LOD_FACTORS[j])
    ELSE NUM_LODS

\* Line 522: nothing to draw.
\* (SkipsRendering without the test for an empty store.)
SkipsRenderingNoLengthCheck(levels) == Len(levels) > 0 /\ levels[1].loadedCount = 0
SkipsRendering(levels) == Len(levels) = 0 \/ levels[1].loadedCount = 0

\* A frame that ends at line 530: the canvas cleared (line 496), no event
\* draw call, frameCount incremented (line 523).
\* (SkippedFrameNotCounted returns before the frame is counted.)
SkippedFrameNotCounted == [NoFrame EXCEPT !.ran = TRUE, !.cleared = TRUE]
SkippedFrame == [NoFrame EXCEPT !.ran = TRUE, !.cleared = TRUE, !.counted = TRUE]

\* A frame that raised after clearing the canvas: no draw call, not counted.
ThrownFrame == [NoFrame EXCEPT !.ran = TRUE, !.cleared = TRUE, !.threw = TRUE]

\* The frame callback is registered with the context (line 492), inside the
\* try block after createREGL has succeeded, and regl.destroy cancels it.
\* (FrameRegisteredOnMount: registered by onMounted whether or not the context exists.)
FrameRegisteredOnMount == phase = "mounted"
FrameRegistered == regl = "live"

\* The regl.frame callback (lines 492-611).
Frame ==
    LET viewStart == viewState.start
        viewEnd   == viewState.start + viewState.duration
    IN
    /\ FrameRegistered
    /\ IF SkipsRendering(lodLevels)
       THEN /\ frame' = SkippedFrame
            /\ UNCHANGED stats
       ELSE IF Len(lodLevels) = 0
       THEN /\ frame' = ThrownFrame
            /\ UNCHANGED stats
       ELSE
         LET lod0 == lodLevels[1]
             viewStartOffset == ScanStart(lod0.chunkIndex, viewStart, 1, 0)
             viewEndOffset   == ScanEnd(lod0.chunkIndex, viewEnd, 1, lod0.loadedCount)
             estimatedEventsInView == viewEndOffset - viewStartOffset
             selectedLod == SelectLod(estimatedEventsInView, canvasWidth)
         IN
         IF selectedLod > Len(lodLevels)
         THEN /\ frame' = ThrownFrame
              /\ UNCHANGED stats
         ELSE
           LET lod         == lodLevels[selectedLod]
               startOffset == ScanStart(lod.chunkIndex, viewStart, 1, 0)
               endOffset   == ScanEnd(lod.chunkIndex, viewEnd, 1, lod.loadedCount)
               count       == Max(0, endOffset - startOffset)
           IN
           /\ stats' = [stats EXCEPT !.currentLod = LOD_FACTORS[selectedLod],
                                     !.instancesDrawn = count]
           /\ frame' = [ ran |-> TRUE, cleared |-> TRUE, drew |-> TRUE, counted |-> TRUE,
                         threw |-> FALSE, lod |-> selectedLod, offset |-> startOffset,
                         instances |-> count, loadedCount |-> lod.loadedCount ]
    /\ UNCHANGED << phase, regl, listeners, numEntries, CHUNK_SIZE, abortController, restarts,
                    loader, lodLevels, viewState, lookupTexture, canvasWidth >>
    /\ UNCHANGED pointerVars
    /\ UNCHANGED sideVars

\* ------------------------------------------------------------ the timeline ruler
\* getStepSize of components/Trace/View/Timeline.vue.  A step is m * 10^power,
\* kept as the pair; the target step duration * (100 / width) is a fraction and
\* is compared by cross-multiplication.
targetPixelsPerTick == 100

\* (MultipliersWithoutTwo: the candidate 2 is missing.)
MultipliersWithoutTwo == << 1, 5, 10 >>
multipliers == << 1, 2, 5, 10 >>

\* The powers of ten the sample inputs need.
MinPower == 0 - 2
MaxPower == 5

\* m * 10^k >= targetStep and m * 10^k <= targetStep, for width > 0.
AtLeastTarget(m, k, duration, width) ==
    IF k >= 0
    THEN m * (10 ^ k) * width >= targetPixelsPerTick * duration
    ELSE m * width >= targetPixelsPerTick * duration * (10 ^ (0 - k))

AtMostTarget(m, k, duration, width) ==
    IF k >= 0
    THEN m * (10 ^ k) * width <= targetPixelsPerTick * duration
    ELSE m * width <= targetPixelsPerTick * duration * (10 ^ (0 - k))

\* Math.floor(Math.log10(targetStep)) for a positive finite targetStep.
FloorLog10(duration, width) ==
    CHOOSE k \in MinPower..MaxPower :
       AtMostTarget(1, k, duration, width) /\ ~AtMostTarget(1, k + 1, duration, width)

InfiniteStep == [ m |-> 0, power |-> 0, infinite |-> TRUE ]

\* getStepSize (lines 34-45) for duration > 0.  A width of 0 makes targetStep
\* +Infinity: log10, floor and pow keep it, Infinity * 1 >= Infinity holds and
\* the function returns Infinity.
getStepSize(duration, width) ==
    IF width = 0
    THEN InfiniteStep
    ELSE LET power == FloorLog10(duration, width)
             fits  == { i \in 1..Len(multipliers) :
                          AtLeastTarget(multipliers[i], power, duration, width) }
         IN  IF fits # {}
             THEN [ m |-> multipliers[CHOOSE i \in fits : \A j \in fits : i <= j],
                    power |-> power, infinite |-> FALSE ]
             ELSE [ m |-> 10, power |-> power, infinite |-> FALSE ]

\* The view durations and container widths (clientWidth, in CSS pixels) the
\* ruler is drawn with.
RulerDurations == {1, 7, 10, 99, 100, 101, 110, 200, 250, 300, 1000, 1440}
RulerWidths == {0, 1, 30, 100, 640, 1000, 1001, 1280, 1920}

\* draw (lines 47-93) up to the computation of the step.
DrawRuler(duration, width) ==
    /\ ruler' = [ drawn |-> TRUE, duration |-> duration, width |-> width,
                  step |-> getStepSize(duration, width) ]
    /\ UNCHANGED << rendererVars, rq, layout >>

RulerNext == \E duration \in RulerDurations, width \in RulerWidths : DrawRuler(duration, width)

RulerSpec == Init /\ [][RulerNext]_vars

\* ------------------------------------------------- the range-query variant
\* The earlier renderer of part_008: it holds one window of events and
\* replaces it by a range query when the view comes near the window's edge.
\* It is a closure of its own; the trace is the one the backend holds.

\* rect.width of the canvas the variant's handlers divide by.
RqWidth == 1000
MAX_ENTRIES == 10000000

\* getEntryIndexByTime(time): the index of the first event that does not start
\* before time.
IndexByTime(time) == Cardinality({ g \in 0..(numEntries - 1) : TraceStart(g) < time })

\* The start times getTraceView(start, count) returns.
ViewStarts(start, count) ==
    [k \in 1..Max(0, Min(count, numEntries - start)) |-> TraceStart(start + k - 1)]

\* requestUpdate (lines 186-190): the debounce timer is set anew.
requestUpdate(r) == [r EXCEPT !.debounceTimer = TRUE, !.owed = @ \/ r.isFetching]

\* The test of line 124.
\* (BusyNever: the test is missing.)
BusyNever(r) == FALSE
Busy(r) == r.isFetching

CallOf(what, r) == [ what |-> what, start |-> r.start, duration |-> r.duration, owed |-> r.owed ]

\* updateData up to its first await (lines 121-152).
updateData(r) ==
    LET currentStart  == r.start
        currentEnd    == r.start + r.duration
        threshold     == r.duration
        hasLeftBuffer == (currentStart - r.loadedStartVal) > threshold
        hasRightBuffer == (r.loadedEndVal - currentEnd) > threshold
        lookahead     == r.duration * 5
    IN  IF r.regl = "null"
        THEN [r EXCEPT !.last = CallOf("noregl", r)]
        ELSE IF Busy(r)
        THEN [r EXCEPT !.pendingUpdate = TRUE, !.owed = TRUE, !.last = CallOf("deferred", r)]
        ELSE IF hasLeftBuffer /\ hasRightBuffer
        THEN [r EXCEPT !.owed = FALSE, !.last = CallOf("enough", r)]
        ELSE [r EXCEPT !.isFetching = TRUE, !.owed = FALSE, !.last = CallOf("fetch", r),
                       !.calls = Append(@, [ pc |-> "startIndex",
                                             fetchStartClk |-> currentStart - lookahead,
                                             fetchEndClk |-> currentEnd + lookahead,
                                             startIndex |-> 0, count |-> 0 ])]

RemoveAt(s, i) == SubSeq(s, 1, i - 1) \o SubSeq(s, i + 1, Len(s))

\* The finally clause (lines 177-183) of invocation i.
\* (FinallyDroppingPending clears pendingUpdate without a new request.)
FinallyDroppingPending(r, i) ==
    [r EXCEPT !.calls = RemoveAt(@, i), !.isFetching = FALSE, !.last = NoCall,
              !.pendingUpdate = FALSE]
Finally(r, i) ==
    LET done == [r EXCEPT !.calls = RemoveAt(@, i), !.isFetching = FALSE, !.last = NoCall]
    IN  IF r.pendingUpdate
        THEN requestUpdate([done EXCEPT !.pendingUpdate = FALSE])
        ELSE done

\* onMounted (lines 193-366) once the first getTraceView(0, 10000) has
\* resolved: the context, the buffers, the view and the listeners.
\* ok = FALSE: the call is rejected or createREGL throws.
RqMount(ok) ==
    /\ rq.regl = "null"
    /\ ~rq.listening
    /\ rq.last.what # "failed"
    /\ LET starts == ViewStarts(0, 10000)
       IN  rq' = IF ~ok
                 THEN [rq EXCEPT !.last = CallOf("failed", rq)]
                 ELSE IF Len(starts) > 0
                 THEN [rq EXCEPT !.regl = "live", !.listening = TRUE,
                                 !.instanceCount = Len(starts),
                                 !.loadedStartVal = starts[1],
                                 !.loadedEndVal = starts[Len(starts)],
                                 !.start = starts[1],
                                 !.duration = (starts[Len(starts)] - starts[1]) \div 10]
                 ELSE [rq EXCEPT !.regl = "live", !.listening = TRUE]
    /\ UNCHANGED << rendererVars, ruler, layout >>

\* handleMouseWheel (lines 279-304).
RqWheel(zoomOut, mouseX) ==
    LET timeAtMouse == rq.start + Frac(mouseX, RqWidth, rq.duration)
        duration    == Max(100, Min(ZoomedDuration(rq.duration, zoomOut), 1000000000))
    IN
    /\ rq.listening
    /\ rq.inputs < MaxInputs
    /\ rq' = requestUpdate([rq EXCEPT !.duration = duration,
                                      !.start = timeAtMouse - Frac(mouseX, RqWidth, duration),
                                      !.inputs = @ + 1, !.last = NoCall])
    /\ UNCHANGED << rendererVars, ruler, layout >>

\* handleMouseDown and handleMouseUp (lines 309-312, 329-331).
RqMouseDown ==
    /\ rq.listening
    /\ ~rq.isDragging
    /\ rq' = [rq EXCEPT !.isDragging = TRUE, !.last = NoCall]
    /\ UNCHANGED << rendererVars, ruler, layout >>

RqMouseUp ==
    /\ rq.listening
    /\ rq.isDragging
    /\ rq' = [rq EXCEPT !.isDragging = FALSE, !.last = NoCall]
    /\ UNCHANGED << rendererVars, ruler, layout >>

\* handleMouseMove (lines 314-327) during a drag.
RqMouseMove(dx) ==
    /\ rq.listening
    /\ rq.isDragging
    /\ rq.inputs < MaxInputs
    /\ rq' = requestUpdate([rq EXCEPT !.start = @ + DragShift(dx, RqWidth, rq.duration),
                                      !.inputs = @ + 1, !.last = NoCall])
    /\ UNCHANGED << rendererVars, ruler, layout >>

\* The debounce timer fires: updateData is called.
RqTimerFire ==
    /\ rq.debounceTimer
    /\ rq' = updateData([rq EXCEPT !.debounceTimer = FALSE])
    /\ UNCHANGED << rendererVars, ruler, layout >>

\* getEntryIndexByTime(fetchStartClk) settles for invocation i (line 153).
RqStartIndexReturn(i, throws) ==
    /\ i \in 1..Len(rq.calls)
    /\ rq.calls[i].pc = "startIndex"
    /\ rq' = IF throws
             THEN Finally(rq, i)
             ELSE [rq EXCEPT !.calls[i].pc = "endIndex",
                             !.calls[i].startIndex = IndexByTime(rq.calls[i].fetchStartClk),
                             !.last = NoCall]
    /\ UNCHANGED << rendererVars, ruler, layout >>

\* getEntryIndexByTime(fetchEndClk) settles (lines 154-158).
RqEndIndexReturn(i, throws) ==
    /\ i \in 1..Len(rq.calls)
    /\ rq.calls[i].pc = "endIndex"
    /\ LET endIndex == IndexByTime(rq.calls[i].fetchEndClk)
           count    == Max(0, Min(endIndex - rq.calls[i].startIndex, MAX_ENTRIES))
       IN  rq' = IF throws \/ count = 0
                 THEN Finally(rq, i)
                 ELSE [rq EXCEPT !.calls[i].pc = "entries", !.calls[i].count = count,
                                 !.last = NoCall]
    /\ UNCHANGED << rendererVars, ruler, layout >>

\* getTraceView(startIndex, count) settles (lines 161-176).  throws: the call
\* is rejected, or a buffer of a destroyed context refuses the data.
RqEntriesReturn(i, throws) ==
    /\ i \in 1..Len(rq.calls)
    /\ rq.calls[i].pc = "entries"
    /\ LET starts == ViewStarts(rq.calls[i].startIndex, rq.calls[i].count)
       IN  rq' = IF throws \/ Len(starts) = 0
                 THEN Finally(rq, i)
                 ELSE Finally([rq EXCEPT !.instanceCount = Len(starts),
                                         !.loadedStartVal = starts[1],
                                         !.loadedEndVal = starts[Len(starts)]], i)
    /\ UNCHANGED << rendererVars, ruler, layout >>

\* onUnmounted (lines 340-347, 368-372).
RqUnmount ==
    /\ rq.regl = "live"
    /\ rq' = [rq EXCEPT !.regl = "destroyed", !.listening = FALSE, !.last = NoCall]
    /\ UNCHANGED << rendererVars, ruler, layout >>

\* A pending backend call of some invocation settles.
RqBackendStep ==
    \E i \in 1..2, throws \in BOOLEAN :
       \/ RqStartIndexReturn(i, throws)
       \/ RqEndIndexReturn(i, throws)
       \/ RqEntriesReturn(i, throws)

RangeQueryNext ==
    \/ \E ok \in BOOLEAN : RqMount(ok)
    \/ \E zoomOut \in BOOLEAN, mouseX \in MouseXs(RqWidth) : RqWheel(zoomOut, mouseX)
    \/ RqMouseDown
    \/ RqMouseUp
    \/ \E dx \in MouseDeltas : RqMouseMove(dx)
    \/ RqTimerFire
    \/ RqBackendStep
    \/ RqUnmount

\* The host fires a timer that is set and settles a backend call that is
\* pending.
RangeQuerySpec ==
    /\ Init
    /\ [][RangeQueryNext]_vars
    /\ WF_vars(RqTimerFire)
    /\ WF_vars(RqBackendStep)

\* ------------------------------------------------------------ the trace layout
\* layouts/trace.vue: the row layout is measured by updateLayout, which the
\* observers and listeners request through scheduleLayoutUpdate.

\* The guard of scheduleLayoutUpdate (line 87).
\* (AlreadyRequestedNever: the guard is missing.)
AlreadyRequestedNever(l) == FALSE
AlreadyRequested(l) == l.layoutRafId # 0

\* scheduleLayoutUpdate (lines 85-92).
scheduleLayoutUpdate(l) ==
    IF AlreadyRequested(l)
    THEN l
    ELSE [l EXCEPT !.layoutRafId = 1, !.requested = @ + 1]

\* onMounted (lines 97-118).  hasContainer: the treeContainer ref holds the
\* element, so the two observers are created.
LayoutMount(hasContainer) ==
    /\ layout.phase = "created"
    /\ layout' = [layout EXCEPT !.phase = "mounted", !.treeContainer = hasContainer,
                                !.initialRequest = TRUE, !.observers = hasContainer,
                                !.windowListeners = TRUE, !.frame = NoLayoutFrame]
    /\ UNCHANGED << rendererVars, ruler, rq >>

\* A ResizeObserver or MutationObserver callback, or a resize or scroll event
\* on the window.
LayoutTrigger(source) ==
    /\ IF source = "observer" THEN layout.observers ELSE layout.windowListeners
    /\ layout.triggers < MaxTriggers
    /\ layout' = [scheduleLayoutUpdate(layout) EXCEPT !.triggers = @ + 1,
                                                      !.frame = NoLayoutFrame]
    /\ UNCHANGED << rendererVars, ruler, rq >>

\* An animation frame: the browser runs every callback requested and not
\* cancelled.  Each callback of scheduleLayoutUpdate resets layoutRafId and
\* calls updateLayout (lines 88-91), onMounted's callback calls updateLayout
\* (99-101).  updateLayout (41-82) returns at once without the container;
\* measurable: it finds the buttons and the memory layout and publishes.
LayoutFrame(measurable) ==
    /\ layout.requested > 0 \/ layout.initialRequest
    /\ layout' = [layout EXCEPT
                     !.layoutRafId = IF layout.requested > 0 THEN 0 ELSE @,
                     !.requested = 0,
                     !.initialRequest = FALSE,
                     !.triggers = 0,
                     !.frame = [ ran |-> TRUE, scheduled |-> layout.requested,
                                 initial |-> IF layout.initialRequest THEN 1 ELSE 0,
                                 triggers |-> layout.triggers,
                                 published |-> layout.treeContainer /\ measurable ]]
    /\ UNCHANGED << rendererVars, ruler, rq >>

\* onUnmounted (lines 120-126): the request whose id layoutRafId holds is
\* cancelled, the observers and listeners are removed.  The component's
\* template refs are null from then on.
LayoutUnmount ==
    /\ layout.phase = "mounted"
    /\ layout' = [layout EXCEPT
                     !.phase = "unmounted", !.treeContainer = FALSE,
                     !.requested = IF layout.layoutRafId # 0 THEN Max(0, @ - 1) ELSE @,
                     !.observers = FALSE, !.windowListeners = FALSE, !.triggers = 0,
                     !.frame = NoLayoutFrame]
    /\ UNCHANGED << rendererVars, ruler, rq >>

LayoutNext ==
    \/ \E hasContainer \in BOOLEAN : LayoutMount(hasContainer)
    \/ \E source \in {"observer", "window"} : LayoutTrigger(source)
    \/ \E measurable \in BOOLEAN : LayoutFrame(measurable)
    \/ LayoutUnmount

LayoutSpec == Init /\ [][LayoutNext]_vars

\* ------------------------------------------------------------ specification
\* The steps of the component's life and of its stream loaders.  No step here
\* reads which listeners are registered, so teardown is followed with the
\* canvas present; TeardownSpec follows it either way.
StreamNext ==
    \/ \E ok \in BOOLEAN : Mount(ok)
    \/ Restart
    \/ \E s \in Sessions, present \in BOOLEAN, gpuThrows \in BOOLEAN :
          HeaderReturn(s, present, gpuThrows)
    \/ \E s \in Sessions, outcome \in {"config", "null", "throw"} : ConfigReturn(s, outcome)
    \/ \E s \in Sessions : ProbeReturn(s)
    \/ \E s \in Sessions : FetchFail(s)
    \/ \E s \in Sessions, gpuThrows \in BOOLEAN : FetchReturn(s, gpuThrows)
    \/ \E s \in Sessions : RafTick(s)
    \/ Unmount(TRUE)

Next ==
    \/ StreamNext
    \/ Frame
    \/ Resize

Spec == Init /\ [][Next]_vars

\* A pending getEntries of some invocation is answered (rejected or resolved),
\* or the animation frame some invocation has requested fires.
LoaderStep ==
    \E s \in Sessions : FetchFail(s) \/ ProbeReturn(s) \/ FetchReturn(s, FALSE) \/ RafTick(s)

\* The loaders when the host keeps its promises: a pending getEntries is
\* eventually answered (resolved or rejected) and a requested animation frame
\* eventually fires.  Frames and resizes write only the canvas width, the
\* frame's own record and stats.currentLod / instancesDrawn, which no loader
\* reads; they are left out of this system.
LiveSpec ==
    /\ Init
    /\ [][StreamNext]_vars
    /\ WF_vars(LoaderStep)

\* The loaders in front of a backend that may also answer a batch request
\* with fewer records than were asked for.
AnyResponseNext ==
    \/ StreamNext
    \/ \E s \in Sessions, returned \in 0..(MaxChunk - 1) : ShortFetchReturn(s, returned)

AnyResponseSpec == Init /\ [][AnyResponseNext]_vars

\* The loaders in front of a backend that may also answer a batch request
\* with a buffer whose last 1 to 4 bytes are missing.
AnyLengthNext ==
    \/ StreamNext
    \/ \E s \in Sessions, dropped \in 1..4 : TruncatedFetchReturn(s, dropped)

AnyLengthSpec == Init /\ [][AnyLengthNext]_vars

\* The loaders in front of a backend that opens another trace before a later
\* startStream call: a batch requested before that is answered from either trace.
NewTraceNext ==
    \/ StreamNext
    \/ \E n \in Totals : n # numEntries /\ OpenTrace(n)
    \/ \E s \in Sessions : LateFetchReturn(s)

NewTraceSpec == Init /\ [][NewTraceNext]_vars

\* The view under the pointer handlers, the resize handler and the stream.
\* A later startStream call is followed here once the invocation before it has
\* ended; invocations that overlap are the subject of Spec.  Teardown removes
\* the listeners and is left out.
RestartAfterEnd == abortController # 0 /\ loader[abortController].pc = "done" /\ Restart

ViewNext ==
    \/ \E ok \in BOOLEAN : Mount(ok)
    \/ RestartAfterEnd
    \/ \E s \in Sessions, present \in BOOLEAN : HeaderReturn(s, present, FALSE)
    \/ \E s \in Sessions, outcome \in {"config", "null", "throw"} : ConfigReturn(s, outcome)
    \/ \E s \in Sessions : ProbeReturn(s)
    \/ \E s \in Sessions : FetchFail(s)
    \/ \E s \in Sessions : FetchReturn(s, FALSE)
    \/ \E s \in Sessions : RafTick(s)
    \/ Resize
    \/ \E zoomOut \in BOOLEAN, mouseX \in MouseXs(canvasWidth) : handleMouseWheel(zoomOut, mouseX)
    \/ handleMouseDown
    \/ \E dx \in MouseDeltas : handleMouseMove(dx)
    \/ handleMouseUp

\* The same with the pointer moves that arrive while no drag is under way.
PointerNext ==
    \/ ViewNext
    \/ \E dx \in MouseDeltas : IdleMouseMove(dx)

\* The same with teardown, at any moment, the canvas ref holding the element
\* or already null.
TeardownNext ==
    \/ ViewNext
    \/ \E canvasPresent \in BOOLEAN : Unmount(canvasPresent)

\* The trace is the longest one, fetched in the larger batches: its stream
\* resets the view (the probe) and extends maxTime (the last batch).
ViewInit == Init /\ numEntries = MaxEntries /\ CHUNK_SIZE = MaxChunk

ViewSpec == ViewInit /\ [][ViewNext]_vars

PointerSpec == ViewInit /\ [][PointerNext]_vars

TeardownSpec == ViewInit /\ [][TeardownNext]_vars

\* ------------------------------------------------------------ properties
Alive(s) == loader[s].pc \notin {"idle", "done"}

\* The factor of the level stored at (1-based) position j of the store.
FactorAt(j) == LOD_FACTORS[((j - 1) % NUM_LODS) + 1]

\* Level j holds, in slots 0 .. n-1, the events whose global index is a
\* multiple of its factor, in stream order, and nothing after them.
HoldsDecimated(j, n) ==
    LET lod == lodLevels[j]
    IN  /\ lod.loadedCount = n
        /\ \A k \in 1..Len(lod.startBuffer) :
              IF k <= n
              THEN /\ lod.startBuffer[k] = TraceStart((k - 1) * FactorAt(j))
                   /\ lod.cmdBuffer[k] = TraceCmd((k - 1) * FactorAt(j))
              ELSE /\ lod.startBuffer[k] = Unwritten
                   /\ lod.cmdBuffer[k] = Unwritten

\* C1: during and after the ingestion of a stream, every level holds exactly
\* the events whose global stream index is a multiple of the level's factor,
\* in stream order: with g events ingested, level i holds the ceil(g / f)
\* events 0, f, 2f, ...  The batch size does not appear in the statement: the
\* contents are the same for every CHUNK_SIZE the model starts with.  Any slot
\* a loader has written, in any interleaving, holds the event k * f.
C1_DecimationParity ==
    /\ \A j \in 1..Len(lodLevels) : \A k \in 1..Len(lodLevels[j].startBuffer) :
          lodLevels[j].startBuffer[k] # Unwritten =>
             /\ lodLevels[j].startBuffer[k] = TraceStart((k - 1) * FactorAt(j))
             /\ lodLevels[j].cmdBuffer[k] = TraceCmd((k - 1) * FactorAt(j))
    /\ (restarts = 0 /\ Len(lodLevels) > 0) =>
          /\ Len(lodLevels) = NUM_LODS
          /\ \A i \in 1..NUM_LODS :
                HoldsDecimated(i, Ceil(lodLevels[1].loadedCount, LOD_FACTORS[i]))
          /\ loader[1].pc \in {"fetch", "raf"} =>
                lodLevels[1].loadedCount = loader[1].globalEventIndex
          /\ loader[1].exit = "complete" => lodLevels[1].loadedCount = numEntries

C1_Witness ==
    /\ restarts = 0
    /\ loader[1].exit = "complete"
    /\ numEntries = MaxEntries
    /\ CHUNK_SIZE = MaxChunk
    /\ Len(lodLevels) = NUM_LODS
    /\ lodLevels[3].loadedCount = Ceil(MaxEntries, 3)
    /\ lodLevels[2].loadedCount = Ceil(MaxEntries, 2)

\* A step that changes a level that is in the store before and after it.
WritesLevel == \E i \in 1..Min(Len(lodLevels), Len(lodLevels')) : lodLevels'[i] # lodLevels[i]

\* C2: a loader whose cancellation signal is set performs no further write to
\* any level's buffers, chunk index or loadedCount.
C2_NoWriteAfterCancel ==
    [][ \A s \in Sessions :
          (Alive(s) /\ loader[s].aborted /\ loader'[s].pc # loader[s].pc) => ~WritesLevel ]_vars

\* C3: a loader whose cancellation signal is set issues no getEntries call,
\* neither the one-event probe nor a batch fetch.
C3_NoFetchAfterCancel ==
    [][ \A s \in Sessions :
          (Alive(s) /\ loader[s].aborted) =>
             /\ loader'[s].probes <= loader[s].probes
             /\ Len(loader'[s].fetches) <= Len(loader[s].fetches) ]_vars

\* C4: the store holds no level, or exactly one level per decimation factor,
\* all pushed by the most recently started session.
C4_OneSessionInStore ==
    /\ Len(lodLevels) \in {0, NUM_LODS}
    /\ \A j \in 1..Len(lodLevels) : lodLevels[j].owner = abortController

\* C5: whenever a frame runs, every slot below loadedCount of every level has
\* been written.
C5_FrameSeesWholeBatches ==
    frame.ran =>
       \A j \in 1..Len(lodLevels) :
          /\ lodLevels[j].loadedCount <= Len(lodLevels[j].startBuffer)
          /\ \A k \in 1..lodLevels[j].loadedCount :
                /\ lodLevels[j].startBuffer[k] # Unwritten
                /\ lodLevels[j].cmdBuffer[k] # Unwritten

\* The batch fetches of invocation s so far: the k-th one is at offset
\* (k-1) * CHUNK_SIZE, holds min(CHUNK_SIZE, total - offset) >= 1 events and
\* ends inside the trace, so the ranges tile a prefix of [0, total).
FetchesInOrder(l) ==
    \A k \in 1..Len(l.fetches) :
       /\ l.fetches[k][1] = (k - 1) * CHUNK_SIZE
       /\ l.fetches[k][2] = Min(CHUNK_SIZE, l.totalEntries - l.fetches[k][1])
       /\ l.fetches[k][2] >= 1
       /\ l.fetches[k][2] <= CHUNK_SIZE
       /\ l.fetches[k][1] + l.fetches[k][2] <= l.totalEntries

\* Every batch fetched before offset has been decimated into every level.
AppliedUpTo(l) ==
    /\ l.globalEventIndex = l.offset
    /\ \A i \in 1..NUM_LODS : l.lodOffsets[i] = Ceil(l.offset, LOD_FACTORS[i])

C6_State ==
    \A s \in Sessions :
       LET l == loader[s] n == Len(l.fetches)
       IN  /\ FetchesInOrder(l)
           /\ l.pc \in {"header", "config", "probe"} => n = 0 /\ l.offset = 0
           /\ l.pc = "fetch" => n >= 1 /\ l.fetches[n][1] = l.offset /\ AppliedUpTo(l)
           /\ l.pc = "raf" => n >= 1 /\ l.fetches[n][1] + l.fetches[n][2] = l.offset
                                 /\ AppliedUpTo(l)
           /\ (l.pc \in {"fetch", "raf"} /\ restarts = 0 /\ regl = "live") =>
                 \A i \in 1..NUM_LODS : lodLevels[i].loadedCount = l.lodOffsets[i]

C6_Step ==
    \A s \in Sessions :
       (Alive(s) /\ loader'[s].exit = "complete") => loader[s].offset = loader[s].totalEntries

\* C6: within a session batches are fetched at offsets 0, B, 2B, ... with
\* count = min(B, total - offset), each batch is applied to every level before
\* the next fetch is issued, and a loader that runs to completion has fetched
\* exactly [0, total).
C6_BatchesInOrder == [](C6_State) /\ [][C6_Step]_vars

C6_Witness ==
    /\ loader[1].pc = "fetch"
    /\ Len(loader[1].fetches) = 2
    /\ loader[1].fetches[2] = << CHUNK_SIZE, MaxEntries - CHUNK_SIZE >>
    /\ CHUNK_SIZE = MaxChunk

\* C7: in every reachable state each level's chunk index is ordered: times
\* non-decreasing, offsets strictly increasing.
C7_ChunkIndexOrdered ==
    \A j \in 1..Len(lodLevels) :
       LET ci == lodLevels[j].chunkIndex
       IN  \A a \in 1..(Len(ci) - 1) :
              /\ ci[a].time <= ci[a + 1].time
              /\ ci[a].offset < ci[a + 1].offset

\* C8: every frame completes and its draw call stays inside the loaded part
\* of the selected level.
C8_DrawInsideLoaded ==
    frame.ran =>
       /\ ~frame.threw
       /\ frame.drew => /\ frame.offset >= 0
                        /\ frame.offset + frame.instances <= frame.loadedCount

\* C9: when a backend fetch of a session is rejected, the levels are left as
\* they were, the loader makes no further step (so no further fetch), and, no
\* other session having been started, the store changes no more.
C9_FetchErrorStopsLoader ==
    [][ \A s \in Sessions :
          /\ (loader'[s].exit = "fetchError" /\ loader[s].exit # "fetchError") =>
                lodLevels' = lodLevels
          /\ loader[s].exit = "fetchError" =>
                \/ loader'[s].pc = loader[s].pc /\ loader'[s].fetches = loader[s].fetches
                     /\ loader'[s].probes = loader[s].probes
                \/ restarts' = restarts + 1
          /\ (loader[s].exit = "fetchError" /\ restarts' = 0) => lodLevels' = lodLevels ]_vars

\* A batch fetch has failed after at least one batch was applied, and a frame
\* has drawn the data loaded before it.
C9_Witness ==
    /\ loader[1].exit = "fetchError"
    /\ restarts = 0
    /\ Len(lodLevels) = NUM_LODS
    /\ lodLevels[1].loadedCount > 0
    /\ lodLevels[1].loadedCount < lodLevels[1].totalCount
    /\ frame.drew
    /\ frame.instances > 0

\* C10: the frame callback never throws.
C10_FrameNeverThrows == frame.ran => ~frame.threw

\* Frames have run on a store cleared by a restart while the cancelled loader
\* was still suspended.
C10_Witness ==
    /\ frame.ran
    /\ ~frame.drew
    /\ restarts > 0
    /\ Len(lodLevels) = 0
    /\ \E s \in Sessions : Alive(s) /\ loader[s].aborted /\ loader[s].pc = "fetch"

\* The step on which an invocation completes: it has fetched and applied
\* ceil(total / B) batches and its offset is the header's total.
C11_Step ==
    \A s \in Sessions :
       (Alive(s) /\ loader'[s].exit = "complete") =>
          /\ loader[s].offset = loader[s].totalEntries
          /\ loader[s].totalEntries = numEntries
          /\ AppliedUpTo(loader[s])
          /\ Len(loader[s].fetches) = Ceil(numEntries, CHUNK_SIZE)

\* C11: a loader that has got its stream open (header, levels, configuration)
\* and is never cancelled, whose fetches all succeed and whose animation-frame
\* ticks keep occurring, eventually terminates normally, having applied every
\* batch, with its offset equal to the header's total entry count.
C11_LoaderTerminates ==
    /\ \A s \in Sessions :
          (loader[s].pc = "probe") ~>
             (loader[s].exit = "complete" \/ loader[s].aborted \/ loader[s].exit = "fetchError")
    /\ [][C11_Step]_vars

\* A stream of MaxEntries events has been loaded to completion one event at a time.
C11_Witness ==
    /\ loader[1].exit = "complete"
    /\ ~loader[1].aborted
    /\ numEntries = MaxEntries
    /\ CHUNK_SIZE = 1
    /\ Len(lodLevels) = NUM_LODS
    /\ lodLevels[1].loadedCount = MaxEntries
    /\ stats.progress = << MaxEntries, MaxEntries >>

\* The step on which the loader of the only startStream call completes.
CompletesAlone(s) == Alive(s) /\ loader'[s].exit = "complete" /\ restarts = 0

\* What a completed load of T = numEntries events leaves: level i holds
\* loadedCount = totalCount = ceil(T / factor[i]) events, fetched in
\* ceil(T / B) batches.
LoadedInFull(s) ==
    /\ Len(lodLevels') = NUM_LODS
    /\ \A i \in 1..NUM_LODS :
          /\ lodLevels'[i].loadedCount = (numEntries + LOD_FACTORS[i] - 1) \div LOD_FACTORS[i]
          /\ lodLevels'[i].totalCount = lodLevels'[i].loadedCount
    /\ Len(loader[s].fetches) = (numEntries + CHUNK_SIZE - 1) \div CHUNK_SIZE

\* stats.progress, kept as the pair << offset, totalEntries >>, is the ratio 1.
ProgressIsOne(pr) == pr[2] # 0 /\ pr[1] = pr[2]

C13_ProgressIsLoadedRatio ==
    [][ \A s \in Sessions :
          (loader[s].pc = "fetch" /\ loader'[s].pc = "raf" /\ Len(lodLevels') > 0) =>
             /\ stats'.progress[2] = loader[s].totalEntries
             /\ stats'.progress[1] = lodLevels'[1].loadedCount
             /\ stats'.eventCount = lodLevels'[1].loadedCount ]_vars

\* C14: the loadedCount of a level never decreases while the level is in the
\* store, whatever the interleaving of loader steps, frames, cancellations and
\* session restarts.
C14_LoadedCountMonotonic ==
    [][ \A i \in 1..Min(Len(lodLevels), Len(lodLevels')) :
          lodLevels'[i].loadedCount >= lodLevels[i].loadedCount ]_vars

\* C15: within a session the fetch of batch k+1 is issued only by the
\* continuation of the animation-frame tick awaited after batch k was applied:
\* the step that applies a batch issues no fetch and leaves the loader
\* suspended on the tick (or ended), and the tick's continuation writes
\* nothing, so the two appends are separate steps with a state between them
\* in which frames and input handlers run.
C15_YieldBetweenBatches ==
    [][ \A s \in Sessions :
          /\ (Len(loader[s].fetches) >= 1 /\ Len(loader'[s].fetches) > Len(loader[s].fetches)) =>
                /\ loader[s].pc = "raf"
                /\ lodLevels' = lodLevels
                /\ stats' = stats
          /\ (loader[s].pc = "fetch" /\ loader'[s].pc # "fetch") =>
                /\ loader'[s].pc \in {"raf", "done"}
                /\ loader'[s].pc = "raf" => loader'[s].fetches = loader[s].fetches ]_vars

\* A frame has drawn the events of the batches applied so far while the loader
\* waits for its tick, with more batches to come.
C15_Witness ==
    /\ loader[1].pc = "raf"
    /\ Len(loader[1].fetches) >= 1
    /\ loader[1].offset < loader[1].totalEntries
    /\ frame.drew
    /\ frame.instances > 0
    /\ frame.loadedCount < numEntries

InDurationBounds(vs, duration) == vs.minDuration <= duration /\ duration <= vs.maxDuration

\* Durations at and next to the bounds of the view state vs, and between them.
SampleDurations(vs) ==
    { vs.minDuration, vs.minDuration + 1, 109, 110, START_TIME, 1091,
      vs.maxDuration - 1, vs.maxDuration }

\* C16: in every reachable state, after any sequence of session starts,
\* streamed batches, wheel events and drag events, minDuration <= duration <=
\* maxDuration; and from any duration inside the bounds one more wheel event
\* in either direction ends inside them.
C16_DurationInBounds ==
    /\ InDurationBounds(viewState, viewState.duration)
    /\ \A d \in SampleDurations(viewState), zoomOut \in BOOLEAN :
          InDurationBounds(viewState, ClampDuration(viewState, ZoomedDuration(d, zoomOut)))

\* A zoom-in at the smallest duration was held at minDuration.
C16_Witness ==
    /\ lastWheel.happened
    /\ viewState.duration = viewState.minDuration
    /\ ZoomedDuration(viewState.duration, FALSE) < viewState.minDuration
    /\ inputEvents = MaxInputs

\* C17: in every reachable state, after any sequence of session starts,
\* streamed batches, wheel events and drag events, the window begins at most
\* 0.1 * duration before minTime and ends at most 0.1 * duration after maxTime:
\* minTime - padding <= start <= max(minTime - padding, maxTime - duration +
\* padding) and start + duration <= maxTime + padding.  A comparison with NaN
\* is false.
C17_StartInBounds ==
    LET padding == RoundDiv(viewState.duration, 10)
        lower   == viewState.minTime - padding
        upper   == Max(lower, viewState.maxTime - viewState.duration + padding)
    IN  /\ viewState.start # NaN
        /\ lower <= viewState.start
        /\ viewState.start <= upper
        /\ viewState.start + viewState.duration <= viewState.maxTime + padding

\* a === b for two doubles: NaN equals nothing, itself included.
SameNumber(a, b) == a # NaN /\ b # NaN /\ a = b

ClampLower(vs) == vs.minTime - RoundDiv(vs.duration, 10)
ClampUpper(vs) == Max(ClampLower(vs), vs.maxTime - vs.duration + RoundDiv(vs.duration, 10))

\* The arguments tried in the view state vs: what the handlers can pass
\* (a time, an infinity, NaN), on a grid and next to the two bounds.
ClampInputs(vs) ==
    { NaN, PosInf, NegInf }
      \cup { 50 * k : k \in (0 - 6)..40 }
      \cup { ClampLower(vs) + e : e \in (0 - 1)..1 }
      \cup { ClampUpper(vs) + e : e \in (0 - 1)..1 }

\* C18: for a fixed view state and every input x,
\* clampViewStart(clampViewStart(x)) = clampViewStart(x), and the result lies
\* between the lower and the upper bound.
C18_ClampIdempotent ==
    \A x \in ClampInputs(viewState) :
       LET once == clampViewStart(viewState, x)
       IN  /\ SameNumber(clampViewStart(viewState, once), once)
           /\ ClampLower(viewState) <= once
           /\ once <= ClampUpper(viewState)

\* The time shown at the pointer of the wheel event w when the view starts at
\* start and lasts duration.
TimeAtPointer(w, start, duration) == Plus(start, Frac(w.mouseX, w.width, duration))

\* C19: for a wheel zoom with the pointer at screen fraction p, the start
\* computed before edge clamping satisfies newStart + p * newDuration =
\* oldStart + p * oldDuration; so whenever clampViewStart leaves newStart
\* unchanged, the time under the pointer is the same before and after the zoom.
C19_ZoomKeepsPointerTime ==
    [][ (lastWheel'.happened /\ inputEvents' = inputEvents + 1) =>
          LET before == TimeAtPointer(lastWheel', viewState.start, viewState.duration)
          IN  /\ SameNumber(TimeAtPointer(lastWheel', lastWheel'.newStart, viewState'.duration),
                            before)
              /\ SameNumber(viewState'.start, lastWheel'.newStart) =>
                    SameNumber(TimeAtPointer(lastWheel', viewState'.start, viewState'.duration),
                               before) ]_vars

\* Estimates of the number of events in view around the thresholds of the
\* three levels on a canvas 1000 px wide.
SampleEstimates == {0, 1, 1499999, 1500000, 1500001, 2000000, 2999999, 3000000, 3000001,
                    4500000, 4500001, 9000000}

\* C20: each drawing frame divides level 0's chunk-index range estimate by the
\* canvas width and selects the first level, in increasing factor order, whose
\* eventsPerPixel / factor is at most 1500, and the coarsest level when no
\* level satisfies that; 2,000,000 events in view on a canvas 1000 px wide
\* select level 1 (the second level), not level 0.
C20_SelectsFirstFittingLevel ==
    /\ frame.drew =>
          LET lod0 == lodLevels[1]
              estimate == ScanEnd(lod0.chunkIndex, viewState.start + viewState.duration, 1,
                                  lod0.loadedCount)
                          - ScanStart(lod0.chunkIndex, viewState.start, 1, 0)
              Fits(i) == DensityFits(estimate, canvasWidth, LOD_FACTORS[i])
          IN  /\ frame.lod \in 1..NUM_LODS
              /\ (\E i \in 1..NUM_LODS : Fits(i)) =>
                    /\ Fits(frame.lod)
                    /\ \A j \in 1..(frame.lod - 1) : ~Fits(j)
              /\ (\A i \in 1..NUM_LODS : ~Fits(i)) => frame.lod = NUM_LODS
    /\ SelectLod(2000000, 1000) = 2
    /\ \A estimate \in SampleEstimates :
          SelectLod(estimate, 1000) = IF estimate <= 1500 * 1000 THEN 1
                                      ELSE IF estimate <= 2 * 1500 * 1000 THEN 2
                                      ELSE 3

\* One frame selected level 0 because it fits; another, on a canvas of zero
\* width where no level fits, selected the coarsest level.
C20_Witness ==
    /\ frame.drew
    /\ canvasWidth = 0
    /\ frame.lod = NUM_LODS
    /\ lodLevels[1].loadedCount > 1

\* A frame on a canvas of positive width selected the first level.
C20_WitnessFirstLevel ==
    /\ frame.drew
    /\ canvasWidth > 0
    /\ frame.lod = 1

\* The estimate of line 550 in the current state: level 0's chunk-index range
\* for the window [start, start + duration].
EstimatedEventsInView ==
    ScanEnd(lodLevels[1].chunkIndex, viewState.start + viewState.duration, 1,
            lodLevels[1].loadedCount)
      - ScanStart(lodLevels[1].chunkIndex, viewState.start, 1, 0)

\* A density eventsPerPixel = estimate / width is kept as the pair
\* << estimate, width >>, width >= 0.  0 / 0 is NaN; x / 0 is an infinity of
\* the sign of x.  DensityLeq is <= on doubles: false when a side is NaN.
IsNaNDensity(d) == d[1] = 0 /\ d[2] = 0
DensityLeq(d, e) ==
    /\ ~IsNaNDensity(d)
    /\ ~IsNaNDensity(e)
    /\ IF d[2] = 0 /\ e[2] = 0 THEN d[1] < 0 \/ e[1] > 0 ELSE d[1] * e[2] <= e[1] * d[2]

\* Densities below, at, between and above the thresholds of the three levels,
\* the two infinities and NaN.
SampleDensities ==
    ({0 - 1, 0, 1, 1499, 1500, 1501, 2999, 3000, 3001, 4499, 4500, 4501, 6000, 9000, 9001}
        \X {0, 1, 2})

\* The factor of the level selected for each sample density.
SelectedFactor == [d \in SampleDensities |-> LOD_FACTORS[SelectLod(d[1], d[2])]]

SamplesMonotone ==
    \A d \in SampleDensities, e \in SampleDensities :
       DensityLeq(d, e) => SelectedFactor[d] <= SelectedFactor[e]

\* C21: LOD selection is monotone in density: for any two values e1 <= e2 of
\* eventsPerPixel the factor of the level selected for e2 is at least the
\* factor of the level selected for e1.  Stated for every pair of sample
\* densities and, in a frame that draws, for the frame's own density and
\* selection against every sample.
C21_SelectionMonotone ==
    /\ SamplesMonotone
    /\ frame.drew =>
          LET mine == << EstimatedEventsInView, canvasWidth >>
          IN  \A d \in SampleDensities :
                 /\ DensityLeq(d, mine) => SelectedFactor[d] <= LOD_FACTORS[frame.lod]
                 /\ DensityLeq(mine, d) => LOD_FACTORS[frame.lod] <= SelectedFactor[d]

\* A frame on a canvas of zero width with events in view (an infinite density)
\* selected the coarsest level, and the samples reach every level.
C21_Witness ==
    /\ frame.drew
    /\ canvasWidth = 0
    /\ EstimatedEventsInView > 0
    /\ frame.lod = NUM_LODS
    /\ { SelectedFactor[d] : d \in SampleDensities } = { LOD_FACTORS[i] : i \in 1..NUM_LODS }

\* C22: in every frame where level 0 has no loaded events (no session yet, the
\* store just cleared by a restart, before the first batch arrives, or a trace
\* whose header declares zero events), the frame clears the canvas, issues no
\* event draw call, still counts toward the FPS counter and raises no error,
\* and it leaves the statistics of the last draw as they were.
C22_EmptyFrameIsBlank ==
    /\ []((frame.ran /\ (Len(lodLevels) = 0 \/ lodLevels[1].loadedCount = 0)) =>
             /\ frame.cleared
             /\ ~frame.drew
             /\ frame.instances = 0
             /\ frame.counted
             /\ ~frame.threw)
    /\ [][ (frame'.ran /\ ~frame'.drew) => stats' = stats ]_vars

\* A frame has run on the levels of a trace whose header declares zero
\* events, loaded to completion, on a canvas of zero width.
C22_Witness ==
    /\ frame.ran
    /\ frame.counted
    /\ numEntries = 0
    /\ canvasWidth = 0
    /\ Len(lodLevels) = NUM_LODS
    /\ lodLevels[1].totalCount = 0
    /\ \E s \in Sessions : loader[s].exit = "complete"

\* A frame has run before the first batch of a trace with events arrived.
C22_WitnessBeforeFirstBatch ==
    /\ frame.ran
    /\ frame.counted
    /\ Len(lodLevels) = NUM_LODS
    /\ lodLevels[1].loadedCount = 0
    /\ lodLevels[1].totalCount > 0
    /\ \E s \in Sessions : loader[s].pc = "fetch"

\* C23: the decoder signals a decode error for every input buffer whose byte
\* length is not a multiple of the record width (5 bytes), and a batch that
\* fails to decode changes no level's buffers, loadedCount or chunk index: the
\* step that receives such a buffer does not consume a decoded count (the
\* loader ends in its catch clause, or at least its global event index stays
\* as it was) and leaves the store as it was.
C23_DecodeErrorStopsBatch ==
    [][ \A s \in Sessions :
          (loader[s].pc = "fetch" /\ loader'[s].pc # "fetch" /\ loader'[s].badLength) =>
             /\ \/ loader'[s].exit = "error"
                \/ /\ loader'[s].globalEventIndex = loader[s].globalEventIndex
                   /\ loader'[s].indexFifths = loader[s].indexFifths
             /\ lodLevels' = lodLevels ]_vars

\* C24: for every stream session the command style table used for drawing has
\* 256 entries, and every command id in 0..255 that has no colour
\* (respectively no non-zero clock period) in the configuration the session
\* loaded maps to the neutral colour 0.5/0.5/0.5 (respectively the duration
\* 10), also when the configuration is missing entirely; ids outside 0..255
\* modify no entry.  A session loads LoadedConfig or nothing, so an id
\* without a colour (a non-zero period) in LoadedConfig has none in whatever
\* the session loaded, and the statement is made for those ids in every frame
\* that draws.
C24_StyleTableDefaults ==
    frame.drew =>
       LET table == TextureOf(lookupTexture)
       IN  /\ table.width = MAX_COMMANDS
           /\ DOMAIN table.data = 0..(MAX_COMMANDS - 1)
           /\ \A id \in 0..(MAX_COMMANDS - 1) :
                 /\ id \notin DOMAIN LoadedConfig.colors => Texel(table, id).color = Neutral
                 /\ (id \notin DOMAIN LoadedConfig.clockPeriods
                       \/ LoadedConfig.clockPeriods[id] = 0) =>
                       Texel(table, id).duration = DefaultDuration

\* C25: after teardown the in-flight loader has been signalled to cancel, the
\* GPU context has been destroyed, and every listener registered on mount
\* (canvas wheel and mousedown; window mousemove, mouseup and resize) has been
\* removed, whatever state the view was in when teardown happened.
C25_TeardownReleasesAll ==
    phase = "unmounted" =>
       /\ regl # "live"
       /\ abortController # 0 =>
             (loader[abortController].aborted \/ Ended(abortController))
       /\ ~listeners.window
       /\ ~listeners.canvas

\* C26: if GPU context acquisition fails on mount, the render session never
\* starts: no frame callback is registered (no frame runs), no input listener
\* is added, no stream loader is started and no backend call or fetch is issued.
C26_NoSessionWithoutContext ==
    (phase # "created" /\ regl = "null") =>
       /\ ~FrameRegistered
       /\ ~frame.ran
       /\ listeners = NoListeners
       /\ abortController = 0
       /\ \A s \in Sessions : loader[s] = IdleLoader
       /\ lodLevels = << >>
       /\ lookupTexture = "dummy"
       /\ stats.totalEvents = 0

\* The view whose context could not be created has been unmounted again.
C26_Witness ==
    /\ phase = "unmounted"
    /\ regl = "null"
    /\ numEntries = MaxEntries

\* C27: all levels advance in lock-step: in every state (wherever a frame or
\* an input handler can run) every level i of the store satisfies
\* loadedCount[i] = ceil(loadedCount[0] / factor[i]).
C27_LevelsInLockStep ==
    \A i \in 1..Len(lodLevels) :
       lodLevels[i].loadedCount = Ceil(lodLevels[1].loadedCount, FactorAt(i))

\* The step appends a slice to level i on behalf of invocation s: the batch
\* was applied and the invocation's offset into the level has advanced.
AppendsTo(s, i) ==
    /\ loader[s].pc = "fetch"
    /\ loader'[s].pc = "raf"
    /\ loader'[s].lodOffsets[i] > loader[s].lodOffsets[i]

\* C28: for each level, every append after the first append of the session
\* records exactly one chunk-index entry, whose offset is the level offset at
\* which the appended slice starts and whose time is the start time of the
\* slice's first event (the first event of the batch whose global index is a
\* multiple of the level's factor); the first append of the session records
\* no entry.
C28_OneEntryPerAppend ==
    [][ \A s \in Sessions, i \in 1..NUM_LODS :
          AppendsTo(s, i) =>
             LET sliceStart == loader[s].lodOffsets[i]
                 firstKept  == Ceil(loader[s].globalEventIndex, LOD_FACTORS[i]) * LOD_FACTORS[i]
                 before     == lodLevels[i].chunkIndex
                 after      == lodLevels'[i].chunkIndex
             IN  /\ i <= Len(lodLevels)
                 /\ i <= Len(lodLevels')
                 /\ IF sliceStart = 0
                    THEN after = before
                    ELSE /\ Len(after) = Len(before) + 1
                         /\ SubSeq(after, 1, Len(before)) = before
                         /\ after[Len(after)].offset = sliceStart
                         /\ after[Len(after)].time = lodLevels'[i].startBuffer[sliceStart + 1]
                         /\ after[Len(after)].time = TraceStart(firstKept) ]_vars

\* The second batch of a stream has been appended to every level: each chunk
\* index holds the probe's entry and the entry of that append.
C28_Witness ==
    /\ restarts = 0
    /\ loader[1].pc = "raf"
    /\ Len(loader[1].fetches) = 2
    /\ Len(lodLevels) = NUM_LODS
    /\ \A i \in 1..NUM_LODS :
          /\ Len(lodLevels[i].chunkIndex) = 2
          /\ lodLevels[i].chunkIndex[2].offset > 0
          /\ lodLevels[i].chunkIndex[2].offset < lodLevels[i].loadedCount

TimeOrdered(chunkIndex) ==
    \A a \in 1..Len(chunkIndex), b \in 1..Len(chunkIndex) :
       a <= b => chunkIndex[a].time <= chunkIndex[b].time

\* The range the claim describes, for the window [viewStart, viewEnd].
RangeStart(chunkIndex, viewStart) ==
    LET notLater == { k \in 1..Len(chunkIndex) : chunkIndex[k].time <= viewStart }
    IN  IF notLater = {} THEN 0
        ELSE chunkIndex[CHOOSE k \in notLater : \A m \in notLater : m <= k].offset

RangeEnd(chunkIndex, viewEnd, loadedCount) ==
    LET later == { k \in 1..Len(chunkIndex) : chunkIndex[k].time > viewEnd }
    IN  IF later = {} THEN loadedCount
        ELSE chunkIndex[CHOOSE k \in later : \A m \in later : k <= m].offset

\* Window starts before, at and after event times of the trace, and a duration
\* that puts the window's end before, at and after event times.
SampleStarts == {0 - 3, 600, 601, 1200}
SampleWindowDurations == {600}

\* C29: for a level with a time-ordered chunk index and a window [viewStart,
\* viewEnd], the range lookup returns startOffset = the offset of the last
\* entry whose time is <= viewStart (0 if the first entry is already later)
\* and endOffset = the offset of the first entry whose time is > viewEnd, or
\* loadedCount if there is none; the instance count is max(0, endOffset -
\* startOffset).  Stated for the window and level of every frame that draws,
\* and for the sample windows on every level of the store.
C29_RangeLookup ==
    /\ (frame.drew /\ TimeOrdered(lodLevels[frame.lod].chunkIndex)) =>
          LET lod == lodLevels[frame.lod]
              startOffset == RangeStart(lod.chunkIndex, viewState.start)
              endOffset   == RangeEnd(lod.chunkIndex, viewState.start + viewState.duration,
                                      lod.loadedCount)
          IN  /\ frame.offset = startOffset
              /\ frame.instances = IF endOffset >= startOffset THEN endOffset - startOffset ELSE 0
              /\ stats.instancesDrawn = frame.instances
    /\ \A j \in 1..Len(lodLevels) :
          TimeOrdered(lodLevels[j].chunkIndex) =>
             \A viewStart \in SampleStarts, duration \in SampleWindowDurations :
                /\ ScanStart(lodLevels[j].chunkIndex, viewStart, 1, 0)
                      = RangeStart(lodLevels[j].chunkIndex, viewStart)
                /\ ScanEnd(lodLevels[j].chunkIndex, viewStart + duration, 1,
                           lodLevels[j].loadedCount)
                      = RangeEnd(lodLevels[j].chunkIndex, viewStart + duration,
                                 lodLevels[j].loadedCount)

\* A frame has drawn only the events up to the first chunk-index entry after
\* the window, and the level's index has an entry at a sample start time.
C29_Witness ==
    /\ frame.drew
    /\ frame.instances > 0
    /\ frame.instances < frame.loadedCount
    /\ TimeOrdered(lodLevels[frame.lod].chunkIndex)
    /\ \E k \in 1..Len(lodLevels[frame.lod].chunkIndex) :
          /\ lodLevels[frame.lod].chunkIndex[k].time = 600
          /\ lodLevels[frame.lod].chunkIndex[k].offset > 0

\* -(dx / width) * duration as the claim writes it, in ticks; a division by
\* zero gives NaN (0 / 0) or an infinity of the sign of dx, negated.
TimeShift(dx, width, duration) ==
    IF width # 0 THEN 0 - ((2 * dx * duration + width) \div (2 * width))
    ELSE IF dx = 0 THEN NaN
    ELSE IF dx < 0 THEN PosInf ELSE NegInf

\* C30: a pointer move of dx pixels during a drag sets start to
\* clampViewStart(start - (dx / canvasWidth) * duration) and leaves duration,
\* minTime, maxTime, minDuration and maxDuration unchanged.
C30_DragPans ==
    [][ (lastMove'.happened /\ inputEvents' = inputEvents + 1) =>
          LET moved == Plus(viewState.start,
                            TimeShift(lastMove'.dx, canvasWidth, viewState.duration))
          IN  /\ isDragging
              /\ viewState'.start = clampViewStart(viewState, moved)
              /\ viewState'.start \in { moved, ClampLower(viewState), ClampUpper(viewState) }
              /\ viewState' = [viewState EXCEPT !.start = viewState'.start] ]_vars

\* A drag has moved the window by half its duration without touching a bound.
C30_Witness ==
    /\ lastMove.happened
    /\ lastMove.dx = 0 - 500
    /\ canvasWidth = 1000
    /\ viewState.duration = START_TIME
    /\ viewState.start = START_TIME \div 2 - START_TIME \div 100
    /\ viewState.start < ClampUpper(viewState)

\* Invocation s takes the response of a batch request in this step (the
\* request is not rejected).
TakesBatch(s) ==
    /\ loader[s].pc = "fetch"
    /\ loader'[s].pc # "fetch"
    /\ loader'[s].exit # "fetchError"

\* The start time of the last record of the batch invocation s has asked for.
LastTimeOfBatch(s) == TraceStart(loader[s].offset + BatchCount(loader[s]) - 1)

\* C31: whenever an applied batch's last timestamp exceeds maxTime, maxTime is
\* set to that timestamp and maxDuration to (maxTime - minTime) * 1.2; maxTime
\* never decreases, and maxDuration = (maxTime - minTime) * 1.2 holds in every
\* reachable state, the initial one included.
C31_MaxDurationFollowsMaxTime ==
    /\ [](10 * viewState.maxDuration = 12 * (viewState.maxTime - viewState.minTime))
    /\ [][ /\ viewState'.maxTime >= viewState.maxTime
           /\ \A s \in Sessions : TakesBatch(s) =>
                 IF LastTimeOfBatch(s) > viewState.maxTime
                 THEN /\ viewState'.maxTime = LastTimeOfBatch(s)
                      /\ 10 * viewState'.maxDuration
                            = 12 * (LastTimeOfBatch(s) - viewState'.minTime)
                 ELSE viewState' = viewState ]_vars

\* The last batch of the longest trace has extended maxTime beyond its
\* initial value.
C31_Witness ==
    /\ \E s \in Sessions : loader[s].exit = "complete"
    /\ viewState.maxTime = TraceStart(MaxEntries - 1)
    /\ viewState.maxTime > 1000
    /\ 10 * viewState.maxDuration = 12 * viewState.maxTime

EntriesPointAtData(j) ==
    LET lod == lodLevels[j]
    IN  \A k \in 1..Len(lod.chunkIndex) :
           lod.chunkIndex[k].offset < lod.loadedCount =>
              /\ lod.chunkIndex[k].offset < Len(lod.startBuffer)
              /\ lod.startBuffer[lod.chunkIndex[k].offset + 1] = lod.chunkIndex[k].time

\* C33: every chunk-index entry (time, offset) of a level whose offset is
\* below that level's loadedCount points at real data: the event stored at
\* that offset in the level's start buffer has a start time equal to the
\* entry's time.
C33_IndexPointsAtData == \A j \in 1..Len(lodLevels) : EntriesPointAtData(j)

\* The same in the states no second startStream call has led to.
C33_FirstSessionOnly == restarts = 0 => C33_IndexPointsAtData

\* The start times a level holds below loadedCount are non-decreasing.
LoadedTimesSorted(lod) ==
    \A a \in 1..Min(lod.loadedCount, Len(lod.startBuffer)) :
       \A b \in a..Min(lod.loadedCount, Len(lod.startBuffer)) :
          (lod.startBuffer[a] # Unwritten /\ lod.startBuffer[b] # Unwritten) =>
             lod.startBuffer[a] <= lod.startBuffer[b]

\* Every event the level holds below loadedCount whose start time lies in
\* (viewStart, viewEnd] is inside [offset, offset + instances).
CoversWindow(lod, viewStart, viewEnd, offset, instances) ==
    \A k \in 1..Min(lod.loadedCount, Len(lod.startBuffer)) :
       ( /\ lod.startBuffer[k] # Unwritten
         /\ viewStart < lod.startBuffer[k]
         /\ lod.startBuffer[k] <= viewEnd ) =>
            /\ offset <= k - 1
            /\ k - 1 < offset + instances

\* C34: the chunk-index culling is conservative: in any frame, given
\* non-decreasing event start times, every loaded event of the selected level
\* whose start time t satisfies viewStart < t <= viewEnd has its level offset
\* inside the drawn range [startOffset, startOffset + instances).  Stated for
\* the window and level of every frame that draws, and for the range the two
\* scans give for the sample windows on every level of the store.
C34_CullingConservative ==
    /\ (frame.drew /\ LoadedTimesSorted(lodLevels[frame.lod])) =>
          CoversWindow(lodLevels[frame.lod], viewState.start,
                       viewState.start + viewState.duration, frame.offset, frame.instances)
    /\ \A j \in 1..Len(lodLevels) :
          LoadedTimesSorted(lodLevels[j]) =>
             \A viewStart \in SampleStarts, duration \in SampleWindowDurations :
                LET startOffset == ScanStart(lodLevels[j].chunkIndex, viewStart, 1, 0)
                    endOffset   == ScanEnd(lodLevels[j].chunkIndex, viewStart + duration, 1,
                                           lodLevels[j].loadedCount)
                IN  CoversWindow(lodLevels[j], viewStart, viewStart + duration,
                                 startOffset, Max(0, endOffset - startOffset))

\* A frame has drawn the one event of its window and culled the later ones
\* of the level.
C34_Witness ==
    /\ frame.drew
    /\ frame.instances = 1
    /\ frame.loadedCount = MaxEntries
    /\ lodLevels[frame.lod].startBuffer[frame.offset + 1] > viewState.start
    /\ lodLevels[frame.lod].startBuffer[frame.offset + 1] <= viewState.start + viewState.duration
    /\ lodLevels[frame.lod].startBuffer[frame.offset + 2] > viewState.start + viewState.duration

\* C35: after every frame, stats.instancesDrawn equals the number of event
\* instances drawn in that frame (zero when the frame issued no event draw
\* call) and stats.currentLod names the level used in that frame, including
\* frames rendered after a session restart has cleared the store.
C35_StatsDescribeLastFrame ==
    frame.ran =>
       IF frame.drew
       THEN /\ stats.instancesDrawn = frame.instances
            /\ stats.currentLod = LOD_FACTORS[frame.lod]
       ELSE stats.instancesDrawn = 0

\* The same for the frames that issue the event draw call only.
C35_DrawingFramesOnly ==
    frame.drew =>
       /\ stats.instancesDrawn = frame.instances
       /\ stats.currentLod = LOD_FACTORS[frame.lod]

\* C36: pointer-move events change the view state only during a drag: a move
\* event that is not preceded by a mousedown on the canvas without an
\* intervening mouseup leaves start and duration unchanged, and mousedown and
\* mouseup themselves never change start or duration.
C36_MovePansOnlyInDrag ==
    [][ /\ (lastMove'.happened /\ inputEvents' = inputEvents + 1 /\ ~isDragging) =>
              /\ viewState'.start = viewState.start
              /\ viewState'.duration = viewState.duration
        /\ isDragging' # isDragging =>
              /\ viewState'.start = viewState.start
              /\ viewState'.duration = viewState.duration ]_vars

\* A pointer move of 500 px has arrived while no drag was under way, on a
\* canvas where the same move during a drag would have shifted the window.
C36_Witness ==
    /\ lastMove.happened
    /\ lastMove.dx = 0 - 500
    /\ ~isDragging
    /\ canvasWidth = 1000
    /\ inputEvents = 1
    /\ viewState.duration = START_TIME
    /\ viewState.start = 0 - (START_TIME \div 100)
    /\ MouseMoveResultUnguarded(viewState, FALSE, lastMove.dx, canvasWidth) # viewState

NiceMultipliers == {1, 2, 5, 10}

\* m1 * 10^k1 <= m2 * 10^k2
NiceLeq(m1, k1, m2, k2) ==
    LET low == Min(k1, k2)
    IN  m1 * (10 ^ (k1 - low)) <= m2 * (10 ^ (k2 - low))

\* The step m * 10^k is the smallest nice value that is at least the target
\* step, and ticks that far apart are at least 100 px and less than 250 px
\* apart on a ruler of the given width.
SmallestNiceStep(step, duration, width) ==
    /\ ~step.infinite
    /\ step.m \in NiceMultipliers
    /\ AtLeastTarget(step.m, step.power, duration, width)
    /\ \A m \in NiceMultipliers, k \in MinPower..MaxPower :
          AtLeastTarget(m, k, duration, width) => NiceLeq(step.m, step.power, m, k)
    /\ IF step.power >= 0
       THEN step.m * (10 ^ step.power) * width < 250 * duration
       ELSE step.m * width < 250 * duration * (10 ^ (0 - step.power))

\* C37 as stated: the ruler's tick step returned by getStepSize(duration,
\* width) is always a nice value m * 10^k with m in {1, 2, 5, 10}, and it is
\* the smallest such value that is >= duration * 100 / width, so consecutive
\* ticks are spaced at least 100 px and less than 250 px apart on screen.
C37_StepIsSmallestNice ==
    ruler.drawn => SmallestNiceStep(ruler.step, ruler.duration, ruler.width)

\* C37 for a ruler that has a width: for width > 0 the step is the smallest
\* nice value m * 10^k, m in {1, 2, 5, 10}, that is >= duration * 100 / width,
\* and consecutive ticks are at least 100 px and less than 250 px apart.
C37_StepIsSmallestNiceOnScreen ==
    (ruler.drawn /\ ruler.width > 0) =>
       SmallestNiceStep(ruler.step, ruler.duration, ruler.width)

\* The ruler was drawn 1000 px wide for a view of 1440 ticks: the target step
\* is 144 and the step 200.
C37_Witness ==
    /\ ruler.drawn
    /\ ruler.width = 1000
    /\ ruler.duration = 1440
    /\ ruler.step = [ m |-> 2, power |-> 2, infinite |-> FALSE ]

\* C38: in the range-query-driven loading variant, at most one updateData
\* fetch sequence (index lookups plus entry fetch plus buffer replacement) is
\* in flight at any time: an updateData call made while isFetching is true
\* performs no backend call and writes no buffer.
C38_OneFetchInFlight ==
    /\ [](Len(rq.calls) <= 1 /\ (rq.isFetching <=> Len(rq.calls) = 1))
    /\ [][ (rq.isFetching /\ rq'.last.what \notin {"none", "failed"}) =>
              /\ rq'.last.what = "deferred"
              /\ rq'.calls = rq.calls
              /\ rq'.instanceCount = rq.instanceCount
              /\ rq'.loadedStartVal = rq.loadedStartVal
              /\ rq'.loadedEndVal = rq.loadedEndVal ]_vars

\* updateData was called while a fetch was waiting for its entries, and was
\* put off.
C38_Witness ==
    /\ rq.last.what = "deferred"
    /\ rq.isFetching
    /\ rq.pendingUpdate
    /\ Len(rq.calls) = 1
    /\ rq.calls[1].pc = "entries"

\* C39: in the range-query-driven loading variant no update request is lost:
\* if updateData is requested while a fetch is in flight, then after that fetch
\* finishes, whether it succeeded or threw, isFetching is false again and a
\* follow-up updateData is eventually run against the then-current view window.
C39_NoUpdateLost ==
    /\ rq.owed ~> (~rq.owed /\ ~rq.isFetching)
    /\ [][ Len(rq'.calls) < Len(rq.calls) => ~rq'.isFetching ]_vars
    /\ [][ (rq.owed /\ ~rq'.owed) =>
              /\ rq'.last.what \in {"enough", "fetch"}
              /\ rq'.last.start = rq'.start
              /\ rq'.last.duration = rq'.duration ]_vars

\* The follow-up updateData has run after a fetch during which an update was
\* put off: the view had moved, and it started a fetch for the new window.
C39_Witness ==
    /\ rq.last.what = "fetch"
    /\ rq.last.owed
    /\ rq.inputs = 2
    /\ ~rq.owed
    /\ ~rq.pendingUpdate
    /\ ~rq.debounceTimer
    /\ Len(rq.calls) = 1

\* C40 as stated: row-layout updates are coalesced: any number of resize,
\* mutation or scroll triggers arriving before the next animation frame leave
\* at most one animation-frame request pending and cause exactly one
\* updateLayout call, and after unmount no updateLayout call publishes a row
\* layout.
C40_LayoutCoalesced ==
    /\ layout.triggers > 0 =>
          layout.requested + (IF layout.initialRequest THEN 1 ELSE 0) = 1
    /\ (layout.frame.ran /\ layout.frame.triggers > 0) =>
          layout.frame.scheduled + layout.frame.initial = 1
    /\ (layout.frame.ran /\ layout.phase = "unmounted") => ~layout.frame.published

\* C40 with onMounted's own request set apart: the triggers arriving before
\* the next animation frame leave exactly one request of scheduleLayoutUpdate
\* pending, next to the one request onMounted makes for the first layout if
\* that has not run yet, and cause exactly one updateLayout call besides that
\* one; after unmount no updateLayout call publishes a row layout.
C40_TriggersCoalesced ==
    /\ layout.requested <= 1
    /\ layout.triggers > 0 => layout.requested = 1
    /\ (layout.frame.ran /\ layout.frame.triggers > 0) => layout.frame.scheduled = 1
    /\ (layout.frame.ran /\ layout.frame.triggers = 0) => layout.frame.scheduled = 0
    /\ (layout.frame.ran /\ layout.phase = "unmounted") => ~layout.frame.published

\* MaxTriggers triggers arrived after the first layout and the frame that
\* followed called updateLayout once, which published.
C40_Witness ==
    /\ layout.frame.ran
    /\ layout.frame.triggers = MaxTriggers
    /\ layout.frame.scheduled = 1
    /\ layout.frame.initial = 0
    /\ layout.frame.published
    /\ layout.phase = "mounted"

\* onMounted's callback ran after unmount and published nothing.
C40_WitnessAfterUnmount ==
    /\ layout.frame.ran
    /\ layout.frame.initial = 1
    /\ layout.phase = "unmounted"
    /\ ~layout.frame.published

====
